---- MODULE Spec2Model ----
(***************************************************************************)
(* A model of agx's turn engine (src/src/session/mod.rs), its confirmation *)
(* gate, the command pattern matcher (src/src/domain/cmd.rs) and the       *)
(* cancellation channel consulted by run_cmd (src/src/tools/run_cmd.rs,    *)
(* src/src/tools/cancel.rs).                                               *)
(*                                                                         *)
(* Strings that the code inspects character by character (command lines)   *)
(* are sequences of one-character strings; texts the code only moves       *)
(* around (prompts, tool-result texts) are sequences of chunks.            *)
(***************************************************************************)
EXTENDS Integers, Sequences, FiniteSets, TLC

VARIABLES
    pc,             \* where Session::run / handle_prompt stands
    chat_history,   \* Session.chat_history
    approvals,      \* Session.approvals: [fs_changes, approved_commands]
    config,         \* Session.config.approved_commands
    disk,           \* approved_commands in .agx/config.local.json
    prompt,         \* handle_prompt: the pending prompt message
    response_text,  \* stream_llm_response: accumulated text chunks
    tool_calls,     \* the tool calls of the current round-trip, in arrival order
    tool_results,   \* handle_prompt: results of the current batch
    idx,            \* handle_prompt: index (from 1) of the tool call in hand
    confirmation,   \* how the tool call in hand passed the gate
    published,      \* the event most recently sent on debug_tx
    skip_hitl,      \* the process environment has AGX_SKIP_HITL=1
    cancelled,      \* the value in the cancellation watch channel
    next_id,        \* the id the provider gives its next tool call
    chunks,         \* text chunks the provider has streamed since the session started
    issued,         \* completion requests issued since the session started
    requests,       \* completion requests issued in the current turn
    turn_end,       \* how the last handle_prompt returned
    executed,       \* the tool calls whose execute() was started, and why
    gated,          \* the ids of the tool calls confirm_tool_call was called for
    debug_tx,       \* Session.debug_tx is Some
    signals,        \* interrupt signals (Ctrl-C) the user has sent so far
    stream,         \* the completion stream last asked for: "none", "open" or "failed"
    cmd,            \* matcher harness: the command line last checked
    cmd_out,        \* matcher harness: what is_approved answered for it
    probe,          \* function bench: the function last applied, its argument and result
    spawned,        \* the shells spawned: tool call id and command line
    fs,             \* the filesystem tree the file tools act on
    fs_call,        \* the file tool call made last: arguments, result, the tree before it
    bus,            \* the broadcast channel behind debug_tx and its subscribers
    watch,          \* the cancellation watch channel and the wait of RunCmdTool::call
    written         \* the ids of the file tool calls whose write to the target took place

vars ==
    << pc, chat_history, approvals, config, disk, prompt, response_text,
       tool_calls, tool_results, idx, confirmation, published, skip_hitl,
       cancelled, next_id, chunks, issued, requests, turn_end, executed, gated, debug_tx,
       signals, stream, cmd, cmd_out, probe, spawned, fs,
       fs_call, bus, watch, written >>

(***************************************************************************)
(* Bounds of the model.                                                    *)
(***************************************************************************)
\* What a session takes in: prompts and tool-result round-trips, streamed tool
\* calls, streamed text chunks and interrupt signals, counted together.
MaxEvents == 5
MaxCmdLen == 3
MaxApproved == 1
\* The longest line read at the confirmation prompt, and the longest path,
\* that the function bench enumerates.
MaxLineLen == 3
MaxPathLen == 4
\* The number of file tool calls made one after the other on one tree.
MaxFsOps == 2
\* The same count for the one turn the round-trip probe follows.
CapProbe == 61
\* The events sent on the debug channel, and the values the channel retains.
MaxSends == 4
BusCapacity == 2

(***************************************************************************)
(* Command lines.                                                          *)
(***************************************************************************)
Git == <<"g", "i", "t">>
GitStatus == <<"g", "i", "t", " ", "s", "t", "a", "t", "u", "s">>
GitCommitMX == <<"g", "i", "t", " ", "c", "o", "m", "m", "i", "t", " ", "-", "m", " ", "x">>
GitPush == <<"g", "i", "t", " ", "p", "u", "s", "h">>
LsLa == <<"l", "s", " ", "-", "l", "a">>
RmRfTmpX == <<"r", "m", " ", "-", "r", "f", " ", "/", "t", "m", "p", "/", "x">>

Whitespace == {" ", "\t", "\n"}

\* The double quote and the backquote, which a TLA+ string cannot hold.
DQuote == "dquote"
BQuote == "bquote"

\* The characters short command lines are enumerated over.
CmdAlphabet == {"g", " ", "'", "\\"}

RECURSIVE SeqsUpTo(_, _)
SeqsUpTo(S, n) ==
    IF n = 0 THEN {<<>>}
    ELSE LET shorter == SeqsUpTo(S, n - 1)
         IN  shorter \cup {Append(s, c) : s \in shorter, c \in S}

ExampleCmds == {Git, GitStatus, GitCommitMX, GitPush, LsLa}

CmdInputs == SeqsUpTo(CmdAlphabet, MaxCmdLen) \cup ExampleCmds

(***************************************************************************)
(* shlex::split, as CmdPattern::from_str calls it: POSIX word splitting    *)
(* with quotes, backslash escapes and comments.  The result is             *)
(* [ok, words]; ok = FALSE is shlex's None.                                *)
(***************************************************************************)
ShlexNone == [ok |-> FALSE, words |-> <<>>]

RECURSIVE ShlexSkip(_, _, _)
RECURSIVE ShlexComment(_, _, _)
RECURSIVE ShlexWord(_, _, _, _)
RECURSIVE ShlexSingle(_, _, _, _)
RECURSIVE ShlexDouble(_, _, _, _)

\* Between words: skip whitespace, a '#' starts a comment, anything else a word.
ShlexSkip(s, k, words) ==
    IF k > Len(s) THEN [ok |-> TRUE, words |-> words]
    ELSE IF s[k] \in Whitespace THEN ShlexSkip(s, k + 1, words)
    ELSE IF s[k] = "#" THEN ShlexComment(s, k + 1, words)
    ELSE ShlexWord(s, k, words, <<>>)

ShlexComment(s, k, words) ==
    IF k > Len(s) THEN [ok |-> TRUE, words |-> words]
    ELSE IF s[k] = "\n" THEN ShlexSkip(s, k + 1, words)
    ELSE ShlexComment(s, k + 1, words)

ShlexWord(s, k, words, cur) ==
    IF k > Len(s) THEN [ok |-> TRUE, words |-> Append(words, cur)]
    ELSE IF s[k] = DQuote THEN ShlexDouble(s, k + 1, words, cur)
    ELSE IF s[k] = "'" THEN ShlexSingle(s, k + 1, words, cur)
    ELSE IF s[k] = "\\" THEN
        IF k + 1 > Len(s) THEN ShlexNone
        ELSE ShlexWord(s, k + 2, words,
                       IF s[k + 1] = "\n" THEN cur ELSE Append(cur, s[k + 1]))
    ELSE IF s[k] \in Whitespace THEN ShlexSkip(s, k + 1, Append(words, cur))
    ELSE ShlexWord(s, k + 1, words, Append(cur, s[k]))

ShlexSingle(s, k, words, cur) ==
    IF k > Len(s) THEN ShlexNone
    ELSE IF s[k] = "'" THEN ShlexWord(s, k + 1, words, cur)
    ELSE ShlexSingle(s, k + 1, words, Append(cur, s[k]))

ShlexDouble(s, k, words, cur) ==
    IF k > Len(s) THEN ShlexNone
    ELSE IF s[k] = DQuote THEN ShlexWord(s, k + 1, words, cur)
    ELSE IF s[k] = "\\" THEN
        IF k + 1 > Len(s) THEN ShlexNone
        ELSE IF s[k + 1] \in {"$", BQuote, DQuote, "\\"}
            THEN ShlexDouble(s, k + 2, words, Append(cur, s[k + 1]))
        ELSE IF s[k + 1] = "\n" THEN ShlexDouble(s, k + 2, words, cur)
        ELSE ShlexDouble(s, k + 2, words, Append(Append(cur, "\\"), s[k + 1]))
    ELSE ShlexDouble(s, k + 1, words, Append(cur, s[k]))

shlex_split(s) == ShlexSkip(s, 1, <<>>)

(***************************************************************************)
(* CmdPattern and ApprovedCmds.  An Option is a sequence of length 0       *)
(* (None) or 1 (Some); a Result is [ok, pattern].                          *)
(***************************************************************************)
None == <<>>
Some(x) == <<x>>

CmdPatternErr == [ok |-> FALSE, pattern |-> [binary |-> <<>>, first_arg |-> None]]

CmdPattern_from_str(s) ==
    LET c == shlex_split(s)
    IN  IF c.ok /\ Len(c.words) > 0
        THEN [ok |-> TRUE,
              pattern |-> [binary |-> c.words[1],
                           first_arg |-> IF Len(c.words) > 1
                                         THEN Some(c.words[2])
                                         ELSE None]]
        ELSE CmdPatternErr

\* A matcher that looks past the second token: the pattern approves only the
\* command lines that end with it.
ApprovedCmds_is_approved_WholeLine(set, c) ==
    LET r == CmdPattern_from_str(c)
    IN  r.ok /\ r.pattern \in set /\ Len(shlex_split(c).words) <= 2

\* A plausible slip: match on the binary alone.
ApprovedCmds_is_approved_BinaryOnly(set, c) ==
    LET r == CmdPattern_from_str(c)
    IN  r.ok /\ \E p \in set : p.binary = r.pattern.binary

ApprovedCmds_is_approved(set, c) ==
    LET r == CmdPattern_from_str(c)
    IN  r.ok /\ r.pattern \in set

ApprovedCmds_insert(set, pattern) == set \cup {pattern}

(***************************************************************************)
(* Texts.  A text the engine only stores is [msg, arg]: a fixed message    *)
(* and, where the code formats a value into it, that value; pre is what    *)
(* a caller's format! puts in front of it.                                 *)
(***************************************************************************)
Text(msg) == [pre |-> "", msg |-> msg, arg |-> <<>>]
TextWith(msg, arg) == [pre |-> "", msg |-> msg, arg |-> arg]

\* format!("{pre}{t}")
Prefixed(pre, t) == [t EXCEPT !.pre = pre]

RECURSIVE TrimStart(_)
TrimStart(s) ==
    IF s # <<>> /\ Head(s) \in Whitespace THEN TrimStart(Tail(s)) ELSE s

RECURSIVE TrimEnd(_)
TrimEnd(s) ==
    IF s # <<>> /\ s[Len(s)] \in Whitespace
    THEN TrimEnd(SubSeq(s, 1, Len(s) - 1))
    ELSE s

\* str::trim
trim(s) == TrimEnd(TrimStart(s))

\* str::contains
contains(s, pat) ==
    \E k \in 0..(Len(s) - Len(pat)) : SubSeq(s, k + 1, k + Len(pat)) = pat

(***************************************************************************)
(* Paths.  Path::components splits at '/', drops empty components and '.'  *)
(* components other than a leading one, and yields ParentDir for '..'.     *)
(***************************************************************************)
EtcPasswd == <<"/", "e", "t", "c", "/", "p", "a", "s", "s", "w", "d">>
DotDotSecret == <<".", ".", "/", "s", "e", "c", "r", "e", "t">>
SrcDotDotMainRs == <<"s", "r", "c", "/", ".", ".", "/", "m", "a", "i", "n", ".", "r", "s">>
SrcMainRs == <<"s", "r", "c", "/", "m", "a", "i", "n", ".", "r", "s">>
DotSlashFile == <<".", "/", "f", "i", "l", "e">>
FileTarGz == <<"f", "i", "l", "e", ".", "t", "a", "r", ".", "g", "z">>
EmptyPath == <<>>

\* The '/'-separated pieces of a path, empty ones included.
RECURSIVE Pieces(_, _, _)
Pieces(p, k, cur) ==
    IF k > Len(p) THEN <<cur>>
    ELSE IF p[k] = "/" THEN <<cur>> \o Pieces(p, k + 1, <<>>)
    ELSE Pieces(p, k + 1, Append(cur, p[k]))

\* Path::is_absolute (Unix)
Path_is_absolute(p) == p # <<>> /\ p[1] = "/"

\* Path::components: [kind, name] with kind RootDir, CurDir, ParentDir or Normal
Path_components(p) ==
    LET pieces == Pieces(p, 1, <<>>)
        Kind(k) ==
            IF pieces[k] = <<".", ".">> THEN "ParentDir"
            ELSE IF pieces[k] = <<".">> THEN (IF k = 1 THEN "CurDir" ELSE "Skip")
            ELSE IF pieces[k] = <<>> THEN "Skip"
            ELSE "Normal"
        kept == SelectSeq([k \in 1..Len(pieces) |->
                              [kind |-> Kind(k), name |-> pieces[k]]],
                          LAMBDA c : c.kind # "Skip")
    IN  IF Path_is_absolute(p)
        THEN <<[kind |-> "RootDir", name |-> <<>>]>> \o kept
        ELSE kept

\* A plausible slip: any ".." in the text of the path counts as a parent reference.
is_path_in_workspace_AnyDots(path) ==
    /\ ~Path_is_absolute(path)
    /\ ~contains(path, <<".", ".">>)

is_path_in_workspace(path) ==
    /\ ~Path_is_absolute(path)
    /\ \A k \in 1..Len(Path_components(path)) :
           Path_components(path)[k].kind # "ParentDir"

(***************************************************************************)
(* run_cmd.                                                                *)
(***************************************************************************)
BLOCKED_CMD_PATTERNS ==
    << <<"r", "m", " ", "-", "r", "f">>,
       <<"s", "u", "d", "o">>,
       <<"c", "u", "r", "l">>,
       <<"w", "g", "e", "t">>,
       <<"d", "d", " ", "i", "f", "=">>,
       <<"m", "k", "f", "s">>,
       <<"f", "d", "i", "s", "k">>,
       <<"f", "o", "r", "m", "a", "t">>,
       <<"d", "e", "l", "t", "r", "e", "e">>,
       <<"r", "m", "d", "i", "r", " ", "/", "s">>,
       <<"n", "c">>,
       <<"n", "e", "t", "c", "a", "t">>,
       <<"t", "e", "l", "n", "e", "t">>,
       <<"s", "s", "h", "-", "k", "e", "y", "g", "e", "n">>,
       <<"p", "a", "s", "s", "w", "d">>,
       <<"u", "s", "e", "r", "a", "d", "d">>,
       <<"u", "s", "e", "r", "d", "e", "l">>,
       <<"c", "h", "m", "o", "d", " ", "7", "7", "7">>,
       <<"c", "h", "o", "w", "n", " ", "r", "o", "o", "t">>,
       <<"p", "y", "t", "h", "o", "n", " ", "-", "c">>,
       <<"p", "e", "r", "l", " ", "-", "e">>,
       <<"r", "u", "b", "y", " ", "-", "e">>,
       <<"n", "o", "d", "e", " ", "-", "e">> >>

\* RunCmdError's messages
CmdIsEmpty == Text("command is empty")
CmdContainsForbiddenPattern(p) == TextWith("command contains a forbidden pattern: ", p)
CouldntRunCmd == Text("couldn't run command")
Interrupted ==
    Text("command invocation was intentionally interrupted by the user by pressing Ctrl+c")

\* What the shell can do with a command line that passed validation.
BashOutcomes == {"exit_zero", "exit_nonzero", "spawn_failed"}

\* The first deny-list entry the command line contains, or 0.
FirstBlocked(command) ==
    LET hits == {k \in 1..Len(BLOCKED_CMD_PATTERNS) :
                    contains(command, BLOCKED_CMD_PATTERNS[k])}
    IN  IF hits = {} THEN 0 ELSE CHOOSE k \in hits : \A j \in hits : k <= j

\* Validation that takes only the empty string for an empty command.
RunCmdTool_validate_EmptyUntrimmed(command) ==
    IF command = <<>> THEN [ok |-> FALSE, val |-> CmdIsEmpty]
    ELSE IF FirstBlocked(command) # 0
        THEN [ok |-> FALSE,
              val |-> CmdContainsForbiddenPattern(
                          BLOCKED_CMD_PATTERNS[FirstBlocked(command)])]
    ELSE [ok |-> TRUE, val |-> Text("")]

\* Validation without the deny-list.
RunCmdTool_validate_NoDenyList(command) ==
    IF trim(command) = <<>> THEN [ok |-> FALSE, val |-> CmdIsEmpty]
    ELSE [ok |-> TRUE, val |-> Text("")]

\* Validation in call_inner: a Result [ok, val]; ok means the shell is spawned.
RunCmdTool_validate(command) ==
    IF trim(command) = <<>> THEN [ok |-> FALSE, val |-> CmdIsEmpty]
    ELSE IF FirstBlocked(command) # 0
        THEN [ok |-> FALSE,
              val |-> CmdContainsForbiddenPattern(
                          BLOCKED_CMD_PATTERNS[FirstBlocked(command)])]
    ELSE [ok |-> TRUE, val |-> Text("")]

\* call_inner: a Result [ok, val]; bash is what the shell does if spawned.
RunCmdTool_call_inner(command, bash) ==
    LET v == RunCmdTool_validate(command)
    IN  IF ~v.ok THEN v
        ELSE IF bash = "spawn_failed" THEN [ok |-> FALSE, val |-> CouldntRunCmd]
        ELSE [ok |-> TRUE,
              val |-> IF bash = "exit_zero"
                      THEN Text("{success:true,status_code:0}")
                      ELSE Text("{success:false,status_code:1}")]

\* RunCmdTool::call: the select between wait_for_cancellation and call_inner.
\* With the flag set the wait is ready at once; call_inner is ready at once
\* only when validation fails, and then the select may take either
\* (cancel_first is the branch it polls first).
RunCmdTool_call(command, bash, flag, cancel_first) ==
    IF flag /\ (cancel_first \/ RunCmdTool_validate(command).ok)
    THEN [ok |-> FALSE, val |-> Interrupted]
    ELSE RunCmdTool_call_inner(command, bash)

(***************************************************************************)
(* The filesystem as the file tools see it: a tree from locations (the     *)
(* names from the root down) to entries, and the process's working         *)
(* directory, which is the workspace.                                      *)
(***************************************************************************)
Dir == [kind |-> "dir", bytes |-> <<>>]
File(bytes) == [kind |-> "file", bytes |-> bytes]

\* The working directory /w.
Cwd == << <<"w">> >>

\* /s is a file outside the workspace; the workspace holds the file a, the
\* directory d and nothing named n.
TreeAtStart ==
    (<<>> :> Dir)
        @@ (<< <<"s">> >> :> File(<<"x">>))
        @@ (Cwd :> Dir)
        @@ (<< <<"w">>, <<"a">> >> :> File(<<"x", "y", "x">>))
        @@ (<< <<"w">>, <<"d">> >> :> Dir)

\* Where a component leads from a location.
Step(loc, c) ==
    CASE c.kind = "RootDir" -> <<>>
      [] c.kind = "CurDir" -> loc
      [] c.kind = "ParentDir" -> IF loc = <<>> THEN <<>> ELSE SubSeq(loc, 1, Len(loc) - 1)
      [] OTHER -> Append(loc, c.name)

\* Path resolution by the kernel: every location passed through must be an
\* existing directory.
RECURSIVE Walk(_, _, _, _)
Walk(tree, loc, comps, k) ==
    IF loc \notin DOMAIN tree THEN [err |-> "NotFound", loc |-> loc]
    ELSE IF k > Len(comps) THEN [err |-> "none", loc |-> loc]
    ELSE IF tree[loc].kind # "dir" THEN [err |-> "NotADirectory", loc |-> loc]
    ELSE Walk(tree, Step(loc, comps[k]), comps, k + 1)

\* tokio::fs::metadata: the entry at the path or the error kind; the empty
\* path names nothing.
fs_metadata(tree, path) ==
    IF path = <<>> THEN [err |-> "NotFound", loc |-> Cwd]
    ELSE Walk(tree, Cwd, Path_components(path), 1)

\* The location a path names, whether or not it exists.
RECURSIVE Locate(_, _, _)
Locate(loc, comps, k) ==
    IF k > Len(comps) THEN loc ELSE Locate(Step(loc, comps[k]), comps, k + 1)

\* The locations between the root and loc, both excluded.
Ancestors(loc) == {SubSeq(loc, 1, n) : n \in 1..(Len(loc) - 1)}

\* The entries directly inside loc.
Children(tree, loc) ==
    {l \in DOMAIN tree : Len(l) = Len(loc) + 1 /\ SubSeq(l, 1, Len(loc)) = loc}

\* io, below, is the system call that fails for a reason of the environment
\* (permissions, a full disk, bytes that are no UTF-8), if the call gets to it.

\* Results of the file tools.
FsOk(val) == [ok |-> TRUE, err |-> "", val |-> val]
FsErr(err) == [ok |-> FALSE, err |-> err, val |-> <<>>]

\* The messages of CreateFileError, EditFileError, ReadFileError and
\* ReadDirError, by variant (InvalidInput by the field it names).
FsError ==
    [PathCannotBeEmpty |-> "invalid input provided: path cannot be empty",
     OldStrCannotBeEmpty |-> "invalid input provided: old_str cannot be empty",
     PathNotAllowed |-> "absolute paths and parent directory traversal ('..') are not allowed",
     NoChangesRequested |-> "old string and new string are the same",
     NothingWillChange |-> "nothing will change in the file",
     FileDoesntExist |-> "file doesn't exist",
     NotAFile |-> "provided path is not a file",
     AlreadyExists |-> "file already exists",
     IsADir |-> "a directory already exists at this path",
     CouldntGetMetadata |-> "couldn't get metadata",
     CouldntCreateDirectory |-> "couldn't create directory",
     CouldntReadFile |-> "couldn't read file",
     CouldntWriteToFile |-> "couldn't write to file",
     PathNotADir |-> "path is not a directory",
     CouldntReadDirectory |-> "couldn't read directory"]

\* str::replace: every occurrence of old (not empty), left to right, without
\* overlap.
RECURSIVE replace(_, _, _)
replace(text, old, new) ==
    IF Len(text) < Len(old) THEN text
    ELSE IF SubSeq(text, 1, Len(old)) = old
    THEN new \o replace(SubSeq(text, Len(old) + 1, Len(text)), old, new)
    ELSE <<text[1]>> \o replace(Tail(text), old, new)

\* A tool's return: its result and the tree it leaves.
Leaves(out, tree) == [out |-> out, fs |-> tree]

\* The match on the target's metadata that lets a write over an existing file
\* through.
CreateFileTool_check_target_FilesOverwritten(m, tree) ==
    IF m.err = "none"
    THEN IF tree[m.loc].kind = "dir" THEN FsError.IsADir ELSE "ok"
    ELSE IF m.err = "NotFound" THEN "ok"
    ELSE FsError.CouldntGetMetadata

\* create_file: the match on tokio::fs::metadata of the target.
CreateFileTool_check_target(m, tree) ==
    IF m.err = "none"
    THEN IF tree[m.loc].kind = "dir" THEN FsError.IsADir ELSE FsError.AlreadyExists
    ELSE IF m.err = "NotFound" THEN "ok"
    ELSE FsError.CouldntGetMetadata

\* CreateFileTool::call_inner
CreateFileTool_call_inner(tree, path, contents, io) ==
    IF path = <<>> THEN Leaves(FsErr(FsError.PathCannotBeEmpty), tree)
    ELSE IF ~is_path_in_workspace(path) THEN Leaves(FsErr(FsError.PathNotAllowed), tree)
    ELSE IF io = "metadata" THEN Leaves(FsErr(FsError.CouldntGetMetadata), tree)
    ELSE LET checked == CreateFileTool_check_target(fs_metadata(tree, path), tree)
             target == Locate(Cwd, Path_components(path), 1)
             missing == Ancestors(target) \ DOMAIN tree
             with_dirs == [l \in missing |-> Dir] @@ tree
         IN  IF checked # "ok" THEN Leaves(FsErr(checked), tree)
             ELSE IF missing # {} /\ io = "mkdir"
             THEN Leaves(FsErr(FsError.CouldntCreateDirectory), tree)
             ELSE IF io = "open" THEN Leaves(FsErr(FsError.CouldntWriteToFile), with_dirs)
             ELSE IF io = "write"
             THEN Leaves(FsErr(FsError.CouldntWriteToFile), (target :> File(<<>>)) @@ with_dirs)
             ELSE Leaves(FsOk([path |-> path, num_bytes_written |-> Len(contents)]),
                         (target :> File(contents)) @@ with_dirs)

\* edit_file without the comparison of old_str and new_str.
EditFileTool_call_inner_NoComparison(tree, path, old_str, new_str, io) ==
    IF path = <<>> THEN Leaves(FsErr(FsError.PathCannotBeEmpty), tree)
    ELSE IF old_str = <<>> THEN Leaves(FsErr(FsError.OldStrCannotBeEmpty), tree)
    ELSE IF ~is_path_in_workspace(path) THEN Leaves(FsErr(FsError.PathNotAllowed), tree)
    ELSE IF io = "metadata" THEN Leaves(FsErr(FsError.CouldntGetMetadata), tree)
    ELSE LET m == fs_metadata(tree, path)
         IN  IF m.err = "NotFound" THEN Leaves(FsErr(FsError.FileDoesntExist), tree)
             ELSE IF m.err # "none" THEN Leaves(FsErr(FsError.CouldntGetMetadata), tree)
             ELSE IF tree[m.loc].kind # "file" THEN Leaves(FsErr(FsError.NotAFile), tree)
             ELSE IF io = "read" THEN Leaves(FsErr(FsError.CouldntReadFile), tree)
             ELSE LET old_contents == tree[m.loc].bytes
                      new_contents == replace(old_contents, old_str, new_str)
                  IN  IF old_contents = new_contents
                      THEN Leaves(FsErr(FsError.NothingWillChange), tree)
                      ELSE IF io = "open" THEN Leaves(FsErr(FsError.CouldntWriteToFile), tree)
                      ELSE IF io = "write"
                      THEN Leaves(FsErr(FsError.CouldntWriteToFile), (m.loc :> File(<<>>)) @@ tree)
                      ELSE Leaves(FsOk([path |-> path,
                                        num_bytes_written |-> Len(new_contents)]),
                                  (m.loc :> File(new_contents)) @@ tree)

\* EditFileTool::call_inner
EditFileTool_call_inner(tree, path, old_str, new_str, io) ==
    IF path = <<>> THEN Leaves(FsErr(FsError.PathCannotBeEmpty), tree)
    ELSE IF old_str = <<>> THEN Leaves(FsErr(FsError.OldStrCannotBeEmpty), tree)
    ELSE IF old_str = new_str THEN Leaves(FsErr(FsError.NoChangesRequested), tree)
    ELSE IF ~is_path_in_workspace(path) THEN Leaves(FsErr(FsError.PathNotAllowed), tree)
    ELSE IF io = "metadata" THEN Leaves(FsErr(FsError.CouldntGetMetadata), tree)
    ELSE LET m == fs_metadata(tree, path)
         IN  IF m.err = "NotFound" THEN Leaves(FsErr(FsError.FileDoesntExist), tree)
             ELSE IF m.err # "none" THEN Leaves(FsErr(FsError.CouldntGetMetadata), tree)
             ELSE IF tree[m.loc].kind # "file" THEN Leaves(FsErr(FsError.NotAFile), tree)
             ELSE IF io = "read" THEN Leaves(FsErr(FsError.CouldntReadFile), tree)
             ELSE LET old_contents == tree[m.loc].bytes
                      new_contents == replace(old_contents, old_str, new_str)
                  IN  IF old_contents = new_contents
                      THEN Leaves(FsErr(FsError.NothingWillChange), tree)
                      ELSE IF io = "open" THEN Leaves(FsErr(FsError.CouldntWriteToFile), tree)
                      ELSE IF io = "write"
                      THEN Leaves(FsErr(FsError.CouldntWriteToFile), (m.loc :> File(<<>>)) @@ tree)
                      ELSE Leaves(FsOk([path |-> path,
                                        num_bytes_written |-> Len(new_contents)]),
                                  (m.loc :> File(new_contents)) @@ tree)

\* ReadFileTool::call: tokio::fs::read_to_string of the path as given.
ReadFileTool_call(tree, path, io) ==
    LET m == fs_metadata(tree, path)
        readable == m.err = "none" /\ tree[m.loc].kind = "file" /\ io # "read"
    IN  IF readable THEN Leaves(FsOk(tree[m.loc].bytes), tree)
        ELSE Leaves(FsErr(FsError.CouldntReadFile), tree)

\* ReadDirTool::call_inner
ReadDirTool_call_inner(tree, path, io) ==
    LET m == fs_metadata(tree, path)
    IN  IF m.err # "none" \/ io = "metadata" THEN Leaves(FsErr(FsError.CouldntGetMetadata), tree)
        ELSE IF tree[m.loc].kind # "dir" THEN Leaves(FsErr(FsError.PathNotADir), tree)
        ELSE IF io = "read" THEN Leaves(FsErr(FsError.CouldntReadDirectory), tree)
        ELSE Leaves(FsOk({[name |-> l[Len(l)], kind |-> tree[l].kind,
                           size |-> IF tree[l].kind = "file"
                                    THEN Some(Len(tree[l].bytes)) ELSE None]
                             : l \in Children(tree, m.loc)}),
                    tree)

(***************************************************************************)
(* Tool calls as the provider streams them, and their typed form.          *)
(***************************************************************************)
ToolNames == {"create_file", "edit_file", "read_file", "read_dir", "run_cmd"}

\* What the provider can ask for: a tool name, whether the arguments
\* deserialize, the command line (run_cmd) and whether the preview of the
\* call can be built (edit_file reads its target for the diff).
Shape(name, valid, command, preview_ok) ==
    [name |-> name, valid |-> valid, command |-> command, preview_ok |-> preview_ok]

ReadFileShape == Shape("read_file", TRUE, <<>>, TRUE)
CreateFileShape == Shape("create_file", TRUE, <<>>, TRUE)
EditFileNoPreviewShape == Shape("edit_file", TRUE, <<>>, FALSE)
RunCmdShape == Shape("run_cmd", TRUE, GitStatus, TRUE)
EditFileShape == Shape("edit_file", TRUE, <<>>, TRUE)

ReadDirShape == Shape("read_dir", TRUE, <<>>, TRUE)
RmRfShape == Shape("run_cmd", TRUE, RmRfTmpX, TRUE)
UnknownToolShape == Shape("web_search", TRUE, <<>>, TRUE)

ProviderShapes ==
    {ReadFileShape, CreateFileShape, EditFileNoPreviewShape, RunCmdShape,
     UnknownToolShape}

\* Tool calls of every way to fail: unknown to the parser, refused by the
\* deny-list, without a preview, or failing when run; and the two reading
\* tools.
ToolShapes ==
    {ReadFileShape, ReadDirShape, EditFileNoPreviewShape, RunCmdShape, RmRfShape,
     UnknownToolShape}

ToolCall(id, shape) ==
    [id |-> id,
     call_id |-> IF id % 2 = 0 THEN Some(id) ELSE None,
     name |-> shape.name,
     valid |-> shape.valid,
     command |-> shape.command,
     preview_ok |-> shape.preview_ok]

\* AgxToolCall::try_from: a Result [ok, val]
AgxToolCall_try_from(tc) ==
    IF tc.name \notin ToolNames
    THEN [ok |-> FALSE, val |-> TextWith("unknown tool: ", <<tc.name>>)]
    ELSE IF ~tc.valid
    THEN [ok |-> FALSE, val |-> Text("invalid arguments: ")]
    ELSE [ok |-> TRUE, val |-> Text("")]

\* A gate that lets no tool through unasked.
AgxToolCall_needs_confirmation_EveryTool(tc) == tc.name \in ToolNames

AgxToolCall_needs_confirmation(tc) ==
    tc.name \in {"edit_file", "create_file", "run_cmd"}

\* AgxToolCall::details: only edit_file's preview can fail.
AgxToolCall_details(tc) ==
    IF tc.name = "edit_file" /\ ~tc.preview_ok
    THEN [ok |-> FALSE, val |-> Text("couldn't build the preview")]
    ELSE [ok |-> TRUE, val |-> Text("")]

\* What running a tool can come to: the shell's outcomes for run_cmd, success
\* or failure of the filesystem operation for the others.
FsOutcomes == {"fs_ok", "fs_err"}

OutcomesOf(tc) == IF tc.name = "run_cmd" THEN BashOutcomes ELSE FsOutcomes

\* The call gets as far as Command::new("bash"): it is a run_cmd whose command
\* passed validation.
Spawns(tc) == tc.name = "run_cmd" /\ RunCmdTool_validate(tc.command).ok

\* The tools whose call writes a file of the workspace.
FileMutation(tc) == tc.name \in {"create_file", "edit_file"}

\* Command::new("bash").args(["-c", cmd]).output() for the call.  The future
\* is dropped when a select takes another branch; kill_on_drop is not set, so
\* a shell that has not exited by then is left running.
Spawn(tc, left_running) ==
    [id |-> tc.id, command |-> tc.command, left_running |-> left_running]

\* AgxToolCall::execute: the text handed back to handle_prompt.
AgxToolCall_execute(tc, outcome, flag, cancel_first) ==
    IF tc.name = "run_cmd"
    THEN LET r == RunCmdTool_call(tc.command, outcome, flag, cancel_first)
         IN  IF r.ok THEN r.val ELSE Prefixed("error: ", r.val)
    ELSE IF outcome = "fs_ok"
         THEN TextWith("{ok}", <<tc.name>>)
         ELSE Prefixed("error: ", TextWith("tool failed", <<tc.name>>))

(***************************************************************************)
(* Approvals (the record the gate consults).                               *)
(***************************************************************************)
Approvals_is_tool_call_approved(a, tc) ==
    IF tc.name \in {"create_file", "edit_file"} THEN a.fs_changes
    ELSE IF tc.name = "run_cmd"
        THEN ApprovedCmds_is_approved(a.approved_commands, tc.command)
    ELSE FALSE

\* save_approval: [approvals, msg]; msg is None when nothing was recorded.
Approvals_save_approval(a, tc) ==
    IF tc.name \in {"create_file", "edit_file"}
    THEN [approvals |-> [a EXCEPT !.fs_changes = TRUE], msg |-> Some("edits")]
    ELSE IF tc.name = "run_cmd" /\ CmdPattern_from_str(tc.command).ok
    THEN [approvals |->
              [a EXCEPT !.approved_commands =
                  ApprovedCmds_insert(@, CmdPattern_from_str(tc.command).pattern)],
          msg |-> Some("commands")]
    ELSE [approvals |-> a, msg |-> None]

(***************************************************************************)
(* Messages of the conversation history.                                   *)
(***************************************************************************)
NoMessage ==
    [role |-> "none", text |-> <<>>, calls |-> <<>>, results |-> <<>>, content |-> <<>>]

Message_user(text) ==
    [role |-> "user", text |-> text, calls |-> <<>>, results |-> <<>>, content |-> <<>>]

ToolResultsMessage(results) ==
    [role |-> "user", text |-> <<>>, calls |-> <<>>, results |-> results,
     content |-> <<>>]

\* assistant_contents: the text, when there is some, then the tool calls as
\* they arrived.  An item is its kind and, for a tool call, the call's id.
AssistantContents(text, calls) ==
    (IF text # <<>> THEN <<[kind |-> "text", id |-> 0]>> ELSE <<>>)
        \o [k \in 1..Len(calls) |-> [kind |-> "tool_call", id |-> calls[k].id]]

\* Message::Assistant; content is the order of its items.
AssistantMessage(text, calls) ==
    [role |-> "assistant", text |-> text, calls |-> calls, results |-> <<>>,
     content |-> AssistantContents(text, calls)]

\* A result that keeps the id and loses the call id.
make_tool_result_NoCallId(id, call_id, text) ==
    [id |-> id, call_id |-> None, text |-> text]

make_tool_result(id, call_id, text) ==
    [id |-> id, call_id |-> call_id, text |-> text]

InterruptedByUser == Text("tool call interrupted by user")
SkippedInterrupted ==
    Text("tool call skipped because user interrupted a previous tool call")
UserRejected == Text("user rejected tool call")
SkippedRejected ==
    Text("tool call skipped because user rejected a previous tool call")
UserFeedback(text) == TextWith("user rejected tool call with feedback: ", text)
SkippedFeedback ==
    Text("tool call skipped because user provided feedback on a previous tool call")

SkipTexts == {SkippedInterrupted, SkippedRejected, SkippedFeedback}

\* A plausible slip: the unreached calls get no result.
push_skipped_results_Dropped(remaining, results, reason) == results

push_skipped_results(remaining, results, reason) ==
    results \o [k \in 1..Len(remaining) |->
                   make_tool_result(remaining[k].id, remaining[k].call_id, reason)]

\* The event left on debug_tx after the engine sends evs in order.
Send(evs) ==
    IF debug_tx /\ evs # <<>> THEN evs[Len(evs)] ELSE published

\* The tool_result events push_tool_result sends for n results.
ResultEvents(n) == [k \in 1..n |-> "tool_result"]

(***************************************************************************)
(* The debug channel: a tokio broadcast channel.  log holds the values the *)
(* channel accepted, of which it retains the last BusCapacity; a           *)
(* subscriber reads at next and has handed got to its SSE client.          *)
(***************************************************************************)
SubIds == {1, 2}

NoSubscriber == [attached |-> FALSE, next |-> 0, since |-> 0, got |-> <<>>, missed |-> 0]

BusAtStart == [sends |-> 0, log |-> <<>>, subs |-> [s \in SubIds |-> NoSubscriber]]

\* The position of the oldest value the channel retains.
Oldest(b) == IF Len(b.log) > BusCapacity THEN Len(b.log) - BusCapacity + 1 ELSE 1

\* DebugEventSender::send: broadcast's send stores the value unless there is
\* no receiver, and the error it returns then is dropped.  seq stands for the
\* event's timestamp.
DebugEventSender_send(b, kind) ==
    IF \E s \in SubIds : b.subs[s].attached
    THEN [b EXCEPT !.sends = @ + 1,
                   !.log = Append(@, [kind |-> kind, seq |-> b.sends + 1])]
    ELSE [b EXCEPT !.sends = @ + 1]

\* A receiver that starts at the oldest value the channel retains.
DebugEventReceiver_subscribe_FromOldest(b, s) ==
    [b EXCEPT !.subs[s] = [attached |-> TRUE, next |-> Oldest(b), since |-> b.sends,
                           got |-> <<>>, missed |-> 0]]

\* DebugEventReceiver::subscribe: the receiver sees the values sent from now on.
DebugEventReceiver_subscribe(b, s) ==
    [b EXCEPT !.subs[s] = [attached |-> TRUE, next |-> Len(b.log) + 1, since |-> b.sends,
                           got |-> <<>>, missed |-> 0]]

\* A stream over a channel that retains every value.
BroadcastStream_next_NothingLost(b, s) ==
    [b EXCEPT !.subs[s].next = @ + 1,
              !.subs[s].got = Append(@, b.log[b.subs[s].next])]

\* sse_handler's stream yields its next item: BroadcastStream gives the value
\* at next, or Lagged when that value was overwritten, which moves the
\* receiver to the oldest retained value and which filter_map drops.
BroadcastStream_next(b, s) ==
    IF b.subs[s].next < Oldest(b)
    THEN [b EXCEPT !.subs[s].next = Oldest(b),
                   !.subs[s].missed = @ + Oldest(b) - b.subs[s].next]
    ELSE [b EXCEPT !.subs[s].next = @ + 1,
                   !.subs[s].got = Append(@, b.log[b.subs[s].next])]

(***************************************************************************)
(* The cancellation channel: tokio's watch channel of one bool.  The value *)
(* of the channel is the variable cancelled; watch holds the rest: the     *)
(* version of the value, whether every CancelTx has been dropped, and the  *)
(* wait_for_cancellation future of the RunCmdTool::call now running.       *)
(***************************************************************************)
\* Sends on the cancellation channel a run considers.
MaxWatchOps == 3

\* cancellation_channel: no send yet, the sender alive, no call running.
WatchAtStart ==
    [version |-> 0, seen |-> 0, closed |-> FALSE, started |-> FALSE,
     waiter |-> "none", result |-> "none"]

\* One poll of wait_for_cancellation: the check of the flag on entry, then
\* changed() as long as it is ready. changed() is ready with Ok when the
\* version differs from the one the receiver has seen, ready with Err when the
\* channel is closed, pending otherwise.
CancelRx_wait_for_cancellation(w, flag) ==
    IF ~w.started /\ flag
    THEN [w EXCEPT !.started = TRUE, !.waiter = "returned"]
    ELSE IF w.seen # w.version /\ flag
    THEN [w EXCEPT !.started = TRUE, !.seen = w.version, !.waiter = "returned"]
    ELSE IF w.closed
    THEN [w EXCEPT !.started = TRUE, !.seen = w.version, !.waiter = "returned"]
    ELSE [w EXCEPT !.started = TRUE, !.seen = w.version]

(***************************************************************************)
(* The session.                                                            *)
(***************************************************************************)
Answers ==
    {<<>>, <<"y">>, <<"a">>, <<"n">>, <<"n", "o">>, <<"o", "k">>, <<" ", "y", " ">>}

\* No function has been applied on the bench.
NoProbe == [fn |-> "none", arg |-> <<>>, out |-> <<>>]

\* What editor.readline can return at the confirmation prompt.
ReadlineResults ==
    {[ok |-> TRUE, input |-> s] : s \in Answers} \cup {[ok |-> FALSE, input |-> <<>>]}

\* The persisted approved commands a session can start from.
ConfigSeeds == {{}}

harness == << cmd, cmd_out >>
\* No file tool has been called.
NoFsCall ==
    [n |-> 0, tool |-> "none", path |-> <<>>, args |-> <<>>, io |-> "none",
     out |-> FsErr(""), before |-> TreeAtStart]

files == << fs, fs_call >>

bench == << probe, files >>
environment == << skip_hitl, debug_tx, bench >>
permissions == << approvals, config, disk >>

\* What runs beside the engine: the shells and the debug server's subscribers.
processes == << spawned, bus, watch, written >>

\* Session::new
Init ==
    /\ pc = "idle"
    /\ chat_history = <<>>
    /\ config \in ConfigSeeds
    /\ disk = config
    /\ approvals = [fs_changes |-> FALSE, approved_commands |-> config]
    /\ prompt = NoMessage
    /\ response_text = <<>>
    /\ tool_calls = <<>>
    /\ tool_results = <<>>
    /\ idx = 0
    /\ confirmation = "none"
    /\ published = "none"
    /\ skip_hitl \in BOOLEAN
    /\ debug_tx \in BOOLEAN
    /\ cancelled = FALSE
    /\ next_id = 1
    /\ chunks = 0
    /\ issued = 0
    /\ requests = 0
    /\ turn_end = "none"
    /\ executed = {}
    /\ gated = {}
    /\ signals = 0
    /\ stream = "none"
    /\ cmd = <<>>
    /\ cmd_out = "none"
    /\ probe = NoProbe
    /\ spawned = {}
    /\ fs = TreeAtStart
    /\ fs_call = NoFsCall
    /\ bus = BusAtStart
    /\ watch = WatchAtStart
    /\ written = {}

\* The user interrupt sets the cancellation flag (CancelTx::cancel).
CancelOnInterrupt == TRUE

\* A turn that starts with the flag as the turn before left it.
ResetAtTurnStart_FlagKept == cancelled

\* The flag is cleared when a user-submitted turn starts (CancelTx::reset).
ResetAtTurnStart == FALSE

\* What the session has taken in so far; a batch under way counts the
\* completion request that follows it.
Spent ==
    issued + (next_id - 1) + chunks + signals + (IF tool_calls # <<>> THEN 1 ELSE 0)

\* handle_prompt returns: its locals are gone.
Returned(how) ==
    /\ pc' = "returned"
    /\ turn_end' = how
    /\ prompt' = NoMessage
    /\ response_text' = <<>>
    /\ tool_calls' = <<>>
    /\ tool_results' = <<>>
    /\ idx' = 0

\* Session::run reads a prompt and calls handle_prompt, which wraps it as the
\* pending prompt and enters its loop with the first stream_llm_response.
SubmitPrompt(budget) ==
    /\ pc = "idle"
    /\ Spent < budget
    /\ issued' = issued + 1
    /\ prompt' = Message_user(<<"p">>)
    /\ pc' = "request"
    /\ requests' = 1
    /\ cancelled' = ResetAtTurnStart
    /\ turn_end' = "none"
    /\ confirmation' = "none"
    /\ response_text' = <<>>
    /\ tool_calls' = <<>>
    /\ tool_results' = <<>>
    /\ idx' = 0
    /\ UNCHANGED << chat_history, published, next_id, chunks, executed, gated, signals,
                    stream >>
    /\ UNCHANGED << permissions, environment, harness, processes >>

\* stream_llm_response up to the stream being open: the request is built and
\* the llm_request event sent.
BuildRequest ==
    /\ pc = "request"
    /\ pc' = "streaming"
    /\ published' = Send(<<"llm_request">>)
    /\ response_text' = <<>>
    /\ tool_calls' = <<>>
    /\ stream' = "open"
    /\ UNCHANGED << chat_history, prompt, tool_results, idx, confirmation, cancelled,
                    next_id, chunks, issued, requests, turn_end, executed, gated, signals >>
    /\ UNCHANGED << permissions, environment, harness, processes >>

StreamUnchanged ==
    /\ UNCHANGED << pc, chat_history, prompt, tool_results, idx, confirmation,
                    cancelled, issued, requests, turn_end, executed, gated, signals,
                    stream >>
    /\ UNCHANGED << permissions, environment, harness, processes >>

\* StreamedAssistantContent::Text
StreamText ==
    /\ pc = "streaming"
    /\ Spent < MaxEvents
    /\ chunks' = chunks + 1
    /\ response_text' = Append(response_text, "t")
    /\ UNCHANGED << tool_calls, next_id, published >>
    /\ StreamUnchanged

\* StreamedAssistantContent::ToolCall
StreamToolCall(shape, budget) ==
    /\ pc = "streaming"
    /\ Spent + (IF tool_calls = <<>> THEN 2 ELSE 1) <= budget
    /\ tool_calls' = Append(tool_calls, ToolCall(next_id, shape))
    /\ next_id' = next_id + 1
    /\ UNCHANGED chunks
    /\ published' = Send(<<"tool_call">>)
    /\ UNCHANGED response_text
    /\ StreamUnchanged

\* A plausible slip: the reasoning is kept with the response text.
StreamReasoning_KeptInText ==
    /\ pc = "streaming"
    /\ published' = Send(<<"reasoning">>)
    /\ response_text' = Append(response_text, "r")
    /\ UNCHANGED << tool_calls, next_id, chunks >>
    /\ StreamUnchanged

\* StreamedAssistantContent::Reasoning
StreamReasoning ==
    /\ pc = "streaming"
    /\ published' = Send(<<"reasoning">>)
    /\ UNCHANGED << response_text, tool_calls, next_id, chunks >>
    /\ StreamUnchanged

\* StreamedAssistantContent::Final
StreamFinal ==
    /\ pc = "streaming"
    /\ published' = Send(IF response_text # <<>>
                         THEN <<"assistant_text", "stream_complete">>
                         ELSE <<"stream_complete">>)
    /\ UNCHANGED << response_text, tool_calls, next_id, chunks >>
    /\ StreamUnchanged

\* A plausible slip: the prompt is committed although the stream failed.
StreamFail_CommitsPrompt ==
    /\ pc \in {"request", "streaming"}
    /\ stream' = "failed"
    /\ Returned("stream_error")
    /\ chat_history' = Append(chat_history, prompt)
    /\ UNCHANGED << confirmation, published, cancelled, next_id, chunks, issued, requests,
                    executed, gated, signals >>
    /\ UNCHANGED << permissions, environment, harness, processes >>

\* The request cannot be built, or the stream yields an error: print_error, break.
StreamFail ==
    /\ pc \in {"request", "streaming"}
    /\ stream' = "failed"
    /\ Returned("stream_error")
    /\ UNCHANGED << chat_history, confirmation, published, cancelled, next_id, chunks, issued,
                    requests, executed, gated, signals >>
    /\ UNCHANGED << permissions, environment, harness, processes >>

\* The history after a consumed stream: the prompt, then the assistant message.
Committed(history, p, text, calls) ==
    IF text # <<>> \/ calls # <<>>
    THEN Append(Append(history, p), AssistantMessage(text, calls))
    ELSE Append(history, p)

\* A plausible slip: what was received so far is committed on interrupt.
StreamInterrupt_CommitsPartial ==
    /\ pc \in {"request", "streaming"}
    /\ Spent < MaxEvents
    /\ signals' = signals + 1
    /\ cancelled' = CancelOnInterrupt
    /\ published' = Send(<<"interrupted">>)
    /\ chat_history' = Committed(chat_history, prompt, response_text, tool_calls)
    /\ Returned("interrupted")
    /\ stream' = "none"
    /\ UNCHANGED << confirmation, next_id, chunks, issued, requests, executed, gated >>
    /\ UNCHANGED << permissions, environment, harness, processes >>

\* Ctrl-C wins the select against stream_llm_response.
StreamInterrupt ==
    /\ pc \in {"request", "streaming"}
    /\ Spent < MaxEvents
    /\ signals' = signals + 1
    /\ cancelled' = CancelOnInterrupt
    /\ published' = Send(<<"interrupted">>)
    /\ Returned("interrupted")
    /\ stream' = "none"
    /\ UNCHANGED << chat_history, confirmation, next_id, chunks, issued, requests, executed,
                    gated >>
    /\ UNCHANGED << permissions, environment, harness, processes >>

\* The stream ends: the prompt and the assistant message are committed; with
\* no tool call the turn ends, else the batch loop starts.
StreamEnd ==
    /\ pc = "streaming"
    /\ stream' = "none"
    /\ chat_history' = Committed(chat_history, prompt, response_text, tool_calls)
    /\ IF tool_calls = <<>>
       THEN Returned("completed")
       ELSE /\ pc' = "batch"
            /\ idx' = 1
            /\ tool_results' = <<>>
            /\ UNCHANGED << prompt, response_text, tool_calls, turn_end >>
    /\ UNCHANGED << confirmation, published, cancelled, next_id, chunks, issued, requests,
                    executed, gated, signals >>
    /\ UNCHANGED << permissions, environment, harness, processes >>

(***************************************************************************)
(* The batch loop of handle_prompt.                                        *)
(***************************************************************************)
\* After the for loop: no result ends the turn, else the results become the
\* next prompt and the loop goes back to stream_llm_response.
EndOfBatch(results) ==
    IF results = <<>>
    THEN Returned("completed") /\ UNCHANGED << requests, issued >>
    ELSE /\ prompt' = ToolResultsMessage(results)
         /\ pc' = "request"
         /\ requests' = requests + 1
         /\ issued' = issued + 1
         /\ tool_results' = <<>>
         /\ tool_calls' = <<>>
         /\ response_text' = <<>>
         /\ idx' = 0
         /\ UNCHANGED turn_end

\* A loop that gives up on the batch when a result reports a failure.
AfterResult_ErrorEndsTurn(results) ==
    IF results[Len(results)].text.pre # ""
    THEN Returned("completed") /\ UNCHANGED << requests, issued >>
    ELSE IF idx < Len(tool_calls)
    THEN /\ tool_results' = results
         /\ idx' = idx + 1
         /\ pc' = "batch"
         /\ UNCHANGED << prompt, requests, issued, tool_calls, response_text,
                         turn_end >>
    ELSE EndOfBatch(results)

\* The tool call in hand has its result: on to the next one, or out of the loop.
AfterResult(results) ==
    IF idx < Len(tool_calls)
    THEN /\ tool_results' = results
         /\ idx' = idx + 1
         /\ pc' = "batch"
         /\ UNCHANGED << prompt, requests, issued, tool_calls, response_text,
                         turn_end >>
    ELSE EndOfBatch(results)

\* A plausible slip: once a call may run, the rest of the batch is started
\* with it.
StartExecute_RestOfBatch(tc, decision, how) ==
    /\ pc' = "execute"
    /\ confirmation' = decision
    /\ executed' = executed \cup {[id |-> tool_calls[k].id, name |-> tool_calls[k].name,
                                   how |-> how] : k \in idx..Len(tool_calls)}
    /\ UNCHANGED << prompt, requests, issued, tool_calls, tool_results,
                    response_text, idx, turn_end >>

\* The select on Ctrl-C and tool_call.execute() is entered.
StartExecute(tc, decision, how) ==
    /\ pc' = "execute"
    /\ confirmation' = decision
    /\ executed' = executed \cup {[id |-> tc.id, name |-> tc.name, how |-> how]}
    /\ UNCHANGED << prompt, requests, issued, tool_calls, tool_results,
                    response_text, idx, turn_end >>

\* One iteration of the for loop up to the point where it waits: parse, build
\* the preview, and run confirm_tool_call up to its readline.
GateCall ==
    /\ pc = "batch"
    /\ idx \in 1..Len(tool_calls)
    /\ LET tc == tool_calls[idx]
           parsed == AgxToolCall_try_from(tc)
           details == AgxToolCall_details(tc)
       IN  IF ~parsed.ok
           THEN /\ AfterResult(Append(tool_results,
                        make_tool_result(tc.id, tc.call_id,
                            Prefixed("failed to parse tool call: ", parsed.val))))
                /\ published' = Send(<<"tool_result">>)
                /\ UNCHANGED << confirmation, executed, gated >>
           ELSE IF ~AgxToolCall_needs_confirmation(tc)
           THEN /\ StartExecute(tc, "Approved", "ungated")
                /\ UNCHANGED << published, gated >>
           ELSE IF ~details.ok
           THEN /\ AfterResult(Append(tool_results,
                        make_tool_result(tc.id, tc.call_id, details.val)))
                /\ published' = Send(<<"tool_result">>)
                /\ UNCHANGED << confirmation, executed, gated >>
           ELSE /\ gated' = gated \cup {tc.id}
                /\ UNCHANGED published
                /\ IF skip_hitl
                   THEN StartExecute(tc, "Approved", "env")
                   ELSE IF Approvals_is_tool_call_approved(approvals, tc)
                   THEN StartExecute(tc, "AutoApproved", "record")
                   ELSE /\ pc' = "confirm"
                        /\ UNCHANGED << confirmation, executed, prompt, requests,
                                        issued, tool_calls, tool_results,
                                        response_text, idx, turn_end >>
    /\ UNCHANGED << chat_history, cancelled, next_id, chunks, signals, stream >>
    /\ UNCHANGED << permissions, environment, harness, processes >>

\* The match applied to the line as typed, surrounding blanks included.
ConfirmDecision_Untrimmed(r) ==
    IF ~r.ok THEN "Rejected"
    ELSE IF r.input \in {<<>>, <<"y">>} THEN "Approved"
    ELSE IF r.input = <<"a">> THEN "AutoApproved"
    ELSE IF r.input \in {<<"n">>, <<"n", "o">>} THEN "Rejected"
    ELSE "FeedbackProvided"

\* A gate that takes a failed read of the answer for consent.
ConfirmDecision_ErrorApproves(r) ==
    IF ~r.ok THEN "Approved"
    ELSE IF trim(r.input) \in {<<>>, <<"y">>} THEN "Approved"
    ELSE IF trim(r.input) = <<"a">> THEN "AutoApproved"
    ELSE IF trim(r.input) \in {<<"n">>, <<"n", "o">>} THEN "Rejected"
    ELSE "FeedbackProvided"

\* The match on the trimmed input in confirm_tool_call.
ConfirmDecision(r) ==
    IF ~r.ok THEN "Rejected"
    ELSE IF trim(r.input) \in {<<>>, <<"y">>} THEN "Approved"
    ELSE IF trim(r.input) = <<"a">> THEN "AutoApproved"
    ELSE IF trim(r.input) \in {<<"n">>, <<"n", "o">>} THEN "Rejected"
    ELSE "FeedbackProvided"

\* The text FeedbackProvided carries: feedback.to_string() of the trimmed input.
ConfirmFeedback(r) ==
    IF ConfirmDecision(r) = "FeedbackProvided" THEN trim(r.input) ELSE <<>>

\* The results of the batch when the tool call in hand gets text and every
\* later one is skipped for reason.
CutShort(text, reason) ==
    LET tc == tool_calls[idx]
    IN  push_skipped_results(
            SubSeq(tool_calls, idx + 1, Len(tool_calls)),
            Append(tool_results, make_tool_result(tc.id, tc.call_id, text)),
            reason)

\* ToolCallConfirmation::Rejected
OnRejected ==
    LET results == CutShort(UserRejected, SkippedRejected)
    IN  /\ published' = Send(ResultEvents(Len(results) - Len(tool_results)))
        /\ chat_history' = Append(chat_history, ToolResultsMessage(results))
        /\ Returned("rejected")
        /\ UNCHANGED << requests, issued, executed, permissions >>

\* A plausible slip: feedback handled like a rejection.
OnFeedback_EndsTurn(text) ==
    LET results == CutShort(UserFeedback(text), SkippedFeedback)
    IN  /\ published' = Send(ResultEvents(Len(results) - Len(tool_results)))
        /\ chat_history' = Append(chat_history, ToolResultsMessage(results))
        /\ Returned("rejected")
        /\ UNCHANGED << requests, issued, executed, permissions >>

\* ToolCallConfirmation::FeedbackProvided
OnFeedback(text) ==
    LET results == CutShort(UserFeedback(text), SkippedFeedback)
    IN  /\ published' = Send(ResultEvents(Len(results) - Len(tool_results)))
        /\ EndOfBatch(results)
        /\ UNCHANGED << chat_history, executed, permissions >>

\* The "a" answer taken as a plain yes: nothing is recorded.
OnAlways_NoRecord(save_ok) ==
    /\ StartExecute(tool_calls[idx], "AutoApproved", "prompt")
    /\ UNCHANGED << chat_history, published, permissions >>

\* A plausible slip: an approval that could not be saved is taken back.
OnAlways_UnsavedForgotten(save_ok) ==
    LET tc == tool_calls[idx]
        saved == Approvals_save_approval(approvals, tc)
        kept == saved.msg # None /\ (tc.name = "run_cmd" => save_ok)
    IN  /\ approvals' = IF kept THEN saved.approvals ELSE approvals
        /\ IF kept /\ tc.name = "run_cmd"
           THEN /\ config' = saved.approvals.approved_commands
                /\ disk' = saved.approvals.approved_commands
           ELSE UNCHANGED << config, disk >>
        /\ StartExecute(tc, "AutoApproved", "prompt")
        /\ UNCHANGED << chat_history, published >>

\* The "a" answer: the approval is recorded and, for a command, saved.
OnAlways(save_ok) ==
    LET tc == tool_calls[idx]
        saved == Approvals_save_approval(approvals, tc)
    IN  /\ approvals' = saved.approvals
        /\ IF saved.msg # None /\ tc.name = "run_cmd"
           THEN /\ config' = saved.approvals.approved_commands
                /\ disk' = IF save_ok THEN saved.approvals.approved_commands ELSE disk
           ELSE UNCHANGED << config, disk >>
        /\ StartExecute(tc, "AutoApproved", "prompt")
        /\ UNCHANGED << chat_history, published >>

\* A plausible slip: every answer that lets the call run is remembered.
AnswerPrompt_YesRemembered(r, save_ok) ==
    /\ pc = "confirm"
    /\ LET decision == ConfirmDecision(r)
       IN  IF decision = "Approved"
           THEN /\ approvals' = Approvals_save_approval(approvals, tool_calls[idx]).approvals
                /\ StartExecute(tool_calls[idx], "Approved", "prompt")
                /\ UNCHANGED << chat_history, published, config, disk >>
           ELSE IF decision = "AutoApproved"
           THEN OnAlways(save_ok)
           ELSE IF decision = "Rejected"
           THEN OnRejected /\ confirmation' = "Rejected"
           ELSE OnFeedback(ConfirmFeedback(r)) /\ confirmation' = "FeedbackProvided"
    /\ UNCHANGED << cancelled, next_id, chunks, gated, signals, stream >>
    /\ UNCHANGED << environment, harness, processes >>

\* confirm_tool_call from its readline on, and what handle_prompt does with
\* the decision.
AnswerPrompt(r, save_ok) ==
    /\ pc = "confirm"
    /\ LET decision == ConfirmDecision(r)
       IN  IF decision = "Approved"
           THEN /\ StartExecute(tool_calls[idx], "Approved", "prompt")
                /\ UNCHANGED << chat_history, published, permissions >>
           ELSE IF decision = "AutoApproved"
           THEN OnAlways(save_ok)
           ELSE IF decision = "Rejected"
           THEN OnRejected /\ confirmation' = "Rejected"
           ELSE OnFeedback(ConfirmFeedback(r)) /\ confirmation' = "FeedbackProvided"
    /\ UNCHANGED << cancelled, next_id, chunks, gated, signals, stream >>
    /\ UNCHANGED << environment, harness, processes >>

\* execute() wins the select: the tool's output is the result.
ExecFinish(outcome, cancel_first) ==
    /\ pc = "execute"
    /\ LET tc == tool_calls[idx]
       IN  /\ outcome \in OutcomesOf(tc)
           /\ AfterResult(Append(tool_results,
                  make_tool_result(tc.id, tc.call_id,
                      AgxToolCall_execute(tc, outcome, cancelled, cancel_first))))
    /\ published' = Send(<<"tool_result">>)
    /\ spawned' = IF Spawns(tool_calls[idx]) /\ ~(cancelled /\ cancel_first)
                  THEN spawned \cup {Spawn(tool_calls[idx], cancelled)}
                  ELSE spawned
    /\ written' = IF FileMutation(tool_calls[idx]) /\ outcome = "fs_ok"
                  THEN written \cup {tool_calls[idx].id}
                  ELSE written
    /\ UNCHANGED << chat_history, confirmation, cancelled, next_id, chunks, executed,
                    gated, signals, stream >>
    /\ UNCHANGED << permissions, environment, harness, bus, watch >>

\* Ctrl-C while a tool runs, and the Ctrl-C branch wins the select. execute()
\* is dropped where it stands: polled says whether it had been polled far
\* enough for its side effect (the shell spawned; the write of the file tool
\* handed to the blocking pool, which carries it out whatever becomes of the
\* future) before the branch won.
ExecInterruptWithin(budget) ==
    /\ pc = "execute"
    /\ Spent < budget
    /\ signals' = signals + 1
    /\ cancelled' = CancelOnInterrupt
    /\ LET results == CutShort(InterruptedByUser, SkippedInterrupted)
       IN  /\ published' =
                 Send(<<"tool_result", "interrupted">>
                      \o ResultEvents(Len(results) - Len(tool_results) - 1))
           /\ chat_history' = Append(chat_history, ToolResultsMessage(results))
    /\ Returned("tool_interrupted")
    /\ \E polled \in BOOLEAN :
          /\ spawned' = IF polled /\ Spawns(tool_calls[idx])
                        THEN spawned \cup {Spawn(tool_calls[idx], TRUE)}
                        ELSE spawned
          /\ written' = IF polled /\ FileMutation(tool_calls[idx])
                        THEN written \cup {tool_calls[idx].id}
                        ELSE written
    /\ UNCHANGED << confirmation, next_id, chunks, issued, requests, executed, gated,
                    stream >>
    /\ UNCHANGED << permissions, environment, harness, bus, watch >>

ExecInterrupt == ExecInterruptWithin(MaxEvents)

\* Ctrl-C while run_cmd runs, and the execute branch wins the select: the
\* flag woke RunCmdTool::call, which returned RunCmdError::Interrupted.
ExecCancel ==
    /\ pc = "execute"
    /\ Spent < MaxEvents
    /\ tool_calls[idx].name = "run_cmd"
    /\ signals' = signals + 1
    /\ cancelled' = CancelOnInterrupt
    /\ LET tc == tool_calls[idx]
       IN  AfterResult(Append(tool_results,
               make_tool_result(tc.id, tc.call_id,
                   AgxToolCall_execute(tc, "exit_zero", CancelOnInterrupt, TRUE))))
    /\ published' = Send(<<"tool_result">>)
    /\ spawned' = IF Spawns(tool_calls[idx])
                  THEN spawned \cup {Spawn(tool_calls[idx], TRUE)}
                  ELSE spawned
    /\ UNCHANGED << chat_history, confirmation, next_id, chunks, executed, gated,
                    stream, written >>
    /\ UNCHANGED << permissions, environment, harness, bus, watch >>

\* A loop that goes back to its prompt without a word.
TurnComplete_Silent ==
    /\ pc = "returned"
    /\ pc' = "idle"
    /\ UNCHANGED << chat_history, prompt, response_text, tool_calls, tool_results,
                    idx, confirmation, cancelled, next_id, chunks, issued, requests, turn_end,
                    executed, gated, signals, stream, published >>
    /\ UNCHANGED << permissions, environment, harness, processes >>

\* handle_prompt has returned: Session::run sends turn_complete and prompts again.
TurnComplete ==
    /\ pc = "returned"
    /\ pc' = "idle"
    /\ published' = Send(<<"turn_complete">>)
    /\ UNCHANGED << chat_history, prompt, response_text, tool_calls, tool_results,
                    idx, confirmation, cancelled, next_id, chunks, issued, requests, turn_end,
                    executed, gated, signals, stream >>
    /\ UNCHANGED << permissions, environment, harness, processes >>

Next ==
    \/ SubmitPrompt(MaxEvents)
    \/ BuildRequest
    \/ StreamText
    \/ \E shape \in ProviderShapes : StreamToolCall(shape, MaxEvents)
    \/ StreamReasoning
    \/ StreamFinal
    \/ StreamFail
    \/ StreamInterrupt
    \/ StreamEnd
    \/ GateCall
    \/ \E r \in ReadlineResults, save_ok \in BOOLEAN : AnswerPrompt(r, save_ok)
    \/ \E outcome \in BashOutcomes \cup FsOutcomes, cancel_first \in BOOLEAN :
           ExecFinish(outcome, cancel_first)
    \/ ExecInterrupt
    \/ ExecCancel
    \/ TurnComplete

Spec == Init /\ [][Next]_vars

(***************************************************************************)
(* The command matcher on its own: patterns are recorded as save_approval  *)
(* records them (CmdPattern::from_str of an approved command line, then    *)
(* ApprovedCmds::insert), and command lines are put to is_approved.        *)
(***************************************************************************)
InitCmd == Init /\ ~skip_hitl /\ ~debug_tx

session ==
    << pc, chat_history, prompt, response_text, tool_calls, tool_results, idx,
       confirmation, published, cancelled, next_id, chunks, issued, requests,
       turn_end, executed, gated, signals, stream >>

\* ApprovedCmds::insert of the pattern of command line c
CmdInsert(c) ==
    /\ cmd_out = "none"
    /\ CmdPattern_from_str(c).ok
    /\ Cardinality(approvals.approved_commands) < MaxApproved
    /\ approvals' = [approvals EXCEPT !.approved_commands =
                        ApprovedCmds_insert(@, CmdPattern_from_str(c).pattern)]
    /\ UNCHANGED << config, disk, environment, harness, session, processes >>

\* ApprovedCmds::is_approved of command line c
CmdCheck(c) ==
    /\ cmd_out = "none"
    /\ cmd' = c
    /\ cmd_out' = IF ApprovedCmds_is_approved(approvals.approved_commands, c)
                  THEN "approved"
                  ELSE "denied"
    /\ UNCHANGED << permissions, environment, session, processes >>

\* The answer has been read; the next command line can be put.
CmdDone ==
    /\ cmd_out # "none"
    /\ cmd' = <<>>
    /\ cmd_out' = "none"
    /\ UNCHANGED << permissions, environment, session, processes >>

NextCmd ==
    \/ \E c \in CmdInputs : CmdInsert(c)
    \/ \E c \in CmdInputs : CmdCheck(c)
    \/ CmdDone

SpecCmd == InitCmd /\ [][NextCmd]_vars

(***************************************************************************)
(* One turn in which the provider answers every completion request with    *)
(* one read_file call, for as long as CapProbe allows.                     *)
(***************************************************************************)
NextCap ==
    \/ issued = 0 /\ SubmitPrompt(CapProbe)
    \/ BuildRequest
    \/ tool_calls = <<>> /\ StreamToolCall(ReadFileShape, CapProbe)
    \/ StreamEnd
    \/ GateCall
    \/ ExecFinish("fs_ok", FALSE)
    \/ TurnComplete

SpecCap == Init /\ [][NextCap]_vars

(***************************************************************************)
(* The turn engine on batches of tool calls only: the model answers every  *)
(* request with tool calls, among them calls that fail in each way.        *)
(***************************************************************************)
NextTools ==
    \/ SubmitPrompt(MaxEvents)
    \/ BuildRequest
    \/ \E shape \in ToolShapes : StreamToolCall(shape, MaxEvents)
    \/ StreamEnd
    \/ GateCall
    \/ \E r \in ReadlineResults, save_ok \in BOOLEAN : AnswerPrompt(r, save_ok)
    \/ \E outcome \in BashOutcomes \cup FsOutcomes, cancel_first \in BOOLEAN :
           ExecFinish(outcome, cancel_first)
    \/ ExecInterrupt
    \/ ExecCancel
    \/ TurnComplete

InitTools == Init /\ ~debug_tx

SpecTools == InitTools /\ [][NextTools]_vars

(***************************************************************************)
(* Interrupts during the execution of a batch of a run_cmd and a read_file *)
(* call, with room for an interrupt after the one that run_cmd took.       *)
(***************************************************************************)
CancelBudget == MaxEvents + 1

NextCancel ==
    \/ issued = 0 /\ SubmitPrompt(CancelBudget)
    \/ BuildRequest
    \/ \E shape \in {RunCmdShape, ReadFileShape} : StreamToolCall(shape, CancelBudget)
    \/ StreamEnd
    \/ GateCall
    \/ AnswerPrompt([ok |-> TRUE, input |-> <<"y">>], TRUE)
    \/ \E outcome \in BashOutcomes \cup FsOutcomes, cancel_first \in BOOLEAN :
           ExecFinish(outcome, cancel_first)
    \/ ExecInterruptWithin(CancelBudget)
    \/ ExecCancel
    \/ TurnComplete

SpecCancel == Init /\ [][NextCancel]_vars

(***************************************************************************)
(* The session loop around the turns: the /new command, and the program    *)
(* being quit and started again.  The provider asks for file mutations and *)
(* for a command.                                                          *)
(***************************************************************************)
SessionShapes == {CreateFileShape, EditFileShape, RunCmdShape}

\* The "/new" command of Session::run.
\* A new-session command that starts from the saved permissions as well.
NewSession_ForgetsApprovals ==
    /\ pc = "idle"
    /\ chat_history # <<>>
    /\ chat_history' = <<>>
    /\ published' = Send(<<"new_session">>)
    /\ approvals' = [fs_changes |-> FALSE, approved_commands |-> disk]
    /\ UNCHANGED << pc, prompt, response_text, tool_calls, tool_results, idx, confirmation,
                    cancelled, next_id, chunks, issued, requests, turn_end, executed,
                    gated, signals, stream >>
    /\ UNCHANGED << config, disk, environment, harness, processes >>

NewSession ==
    /\ pc = "idle"
    /\ chat_history # <<>>
    /\ chat_history' = <<>>
    /\ published' = Send(<<"new_session">>)
    /\ UNCHANGED << pc, prompt, response_text, tool_calls, tool_results, idx, confirmation,
                    cancelled, next_id, chunks, issued, requests, turn_end, executed,
                    gated, signals, stream >>
    /\ UNCHANGED << permissions, environment, harness, processes >>

\* A start that carries the flag over from the session before.
Restart_FlagKept ==
    /\ pc = "idle"
    /\ executed # {}
    /\ chat_history' = <<>>
    /\ config' = disk
    /\ approvals' = [fs_changes |-> approvals.fs_changes, approved_commands |-> disk]
    /\ confirmation' = "none"
    /\ published' = "none"
    /\ cancelled' = FALSE
    /\ requests' = 0
    /\ turn_end' = "none"
    /\ executed' = {}
    /\ gated' = {}
    /\ UNCHANGED << pc, disk, prompt, response_text, tool_calls, tool_results, idx,
                    next_id, chunks, issued, signals, stream >>
    /\ UNCHANGED << environment, harness, processes >>

\* "/quit", and the program is started again in the same directory:
\* Session::new on the config that was saved.  What the provider and the
\* user have done so far goes on being counted; shells outlive the session.
Restart ==
    /\ pc = "idle"
    /\ executed # {}
    /\ chat_history' = <<>>
    /\ config' = disk
    /\ approvals' = [fs_changes |-> FALSE, approved_commands |-> disk]
    /\ confirmation' = "none"
    /\ published' = "none"
    /\ cancelled' = FALSE
    /\ requests' = 0
    /\ turn_end' = "none"
    /\ executed' = {}
    /\ gated' = {}
    /\ UNCHANGED << pc, disk, prompt, response_text, tool_calls, tool_results, idx,
                    next_id, chunks, issued, signals, stream >>
    /\ UNCHANGED << environment, harness, processes >>

NextSession ==
    \/ SubmitPrompt(MaxEvents)
    \/ BuildRequest
    \/ StreamText
    \/ \E shape \in SessionShapes : StreamToolCall(shape, MaxEvents)
    \/ StreamFail
    \/ StreamInterrupt
    \/ StreamEnd
    \/ GateCall
    \/ \E r \in ReadlineResults, save_ok \in BOOLEAN : AnswerPrompt(r, save_ok)
    \/ \E outcome \in BashOutcomes \cup FsOutcomes, cancel_first \in BOOLEAN :
           ExecFinish(outcome, cancel_first)
    \/ ExecInterrupt
    \/ ExecCancel
    \/ TurnComplete
    \/ NewSession
    \/ Restart

InitSession == Init /\ ~skip_hitl

SpecSession == InitSession /\ [][NextSession]_vars

(***************************************************************************)
(* Turns that end in each way, in a session with a debug sender: the       *)
(* provider streams text, a command or a read, and the stream can fail or  *)
(* be interrupted.  Session::run sends turn_complete right after           *)
(* handle_prompt returns, with nothing awaited in between: a turn that has *)
(* returned is completed.                                                  *)
(***************************************************************************)
NextTurns ==
    \/ SubmitPrompt(MaxEvents)
    \/ BuildRequest
    \/ StreamText
    \/ \E shape \in {RunCmdShape, ReadFileShape} : StreamToolCall(shape, MaxEvents)
    \/ StreamFinal
    \/ StreamFail
    \/ StreamInterrupt
    \/ StreamEnd
    \/ GateCall
    \/ \E r \in ReadlineResults, save_ok \in BOOLEAN : AnswerPrompt(r, save_ok)
    \/ \E outcome \in BashOutcomes \cup FsOutcomes, cancel_first \in BOOLEAN :
           ExecFinish(outcome, cancel_first)
    \/ ExecInterrupt
    \/ ExecCancel
    \/ TurnComplete

InitTurns == Init /\ debug_tx /\ ~skip_hitl

SpecTurns == InitTurns /\ [][NextTurns]_vars /\ WF_vars(TurnComplete)

(***************************************************************************)
(* The debug channel on its own: the engine sends events, SSE clients      *)
(* connect, read and disconnect.                                           *)
(***************************************************************************)
EventKinds == {"tool_call", "tool_result"}

\* tx.send(event) in the engine
BusSend(kind) ==
    /\ bus.sends < MaxSends
    /\ bus' = DebugEventSender_send(bus, kind)
    /\ published' = Send(<<kind>>)
    /\ UNCHANGED << pc, chat_history, prompt, response_text, tool_calls, tool_results,
                    idx, confirmation, cancelled, next_id, chunks, issued, requests,
                    turn_end, executed, gated, signals, stream, spawned, watch, written >>
    /\ UNCHANGED << permissions, environment, harness >>

\* A client of /api/debug/events connects: sse_handler subscribes.
BusSubscribe(s) ==
    /\ ~bus.subs[s].attached
    /\ bus' = DebugEventReceiver_subscribe(bus, s)
    /\ UNCHANGED << session, spawned, watch, written, permissions, environment, harness >>

\* The client's stream is polled and has something to yield.
BusRecv(s) ==
    /\ bus.subs[s].attached
    /\ bus.subs[s].next <= Len(bus.log)
    /\ bus' = BroadcastStream_next(bus, s)
    /\ UNCHANGED << session, spawned, watch, written, permissions, environment, harness >>

\* The client disconnects: its receiver is dropped.
BusDisconnect(s) ==
    /\ bus.subs[s].attached
    /\ bus' = [bus EXCEPT !.subs[s] = NoSubscriber]
    /\ UNCHANGED << session, spawned, watch, written, permissions, environment, harness >>

NextBus ==
    \/ \E kind \in EventKinds : BusSend(kind)
    \/ \E s \in SubIds : BusSubscribe(s)
    \/ \E s \in SubIds : BusRecv(s)
    \/ \E s \in SubIds : BusDisconnect(s)

InitBus == Init /\ debug_tx /\ ~skip_hitl

SpecBus == InitBus /\ [][NextBus]_vars

(***************************************************************************)
(* The function bench: the pure parts of the gate, of the path sandbox and *)
(* of run_cmd, applied to enumerated arguments.                            *)
(***************************************************************************)
LineAlphabet == {"y", "a", "n", "o", " "}

\* editor.readline at the confirmation prompt: a line, or an error.
LineInputs ==
    {[ok |-> TRUE, input |-> l] : l \in SeqsUpTo(LineAlphabet, MaxLineLen)}
        \cup {[ok |-> FALSE, input |-> <<>>]}

PathInputs ==
    SeqsUpTo({"/", ".", "a"}, MaxPathLen)
        \cup {EtcPasswd, DotDotSecret, SrcDotDotMainRs, SrcMainRs, DotSlashFile,
              FileTarGz, EmptyPath}

RunCmdInputs ==
    SeqsUpTo({"n", "c", " ", "\t"}, MaxCmdLen) \cup ExampleCmds \cup {RmRfTmpX}

\* confirm_tool_call's match on the line read
ProbeConfirm(r) ==
    /\ probe.fn = "none"
    /\ probe' = [fn |-> "confirm_tool_call",
                 arg |-> r,
                 out |-> [decision |-> ConfirmDecision(r), text |-> ConfirmFeedback(r)]]
    /\ UNCHANGED << permissions, skip_hitl, debug_tx, harness, session, files, processes >>

\* is_path_in_workspace
ProbePath(p) ==
    /\ probe.fn = "none"
    /\ probe' = [fn |-> "is_path_in_workspace", arg |-> p, out |-> is_path_in_workspace(p)]
    /\ UNCHANGED << permissions, skip_hitl, debug_tx, harness, session, files, processes >>

\* RunCmdTool::call_inner; the shell is spawned when validation lets the call
\* reach Command::new, whatever the spawn comes to.
ProbeRunCmd(c, bash) ==
    /\ probe.fn = "none"
    /\ probe' = [fn |-> "call_inner",
                 arg |-> [command |-> c, bash |-> bash],
                 out |-> [result |-> RunCmdTool_call_inner(c, bash),
                          spawned |-> RunCmdTool_validate(c).ok]]
    /\ UNCHANGED << permissions, skip_hitl, debug_tx, harness, session, files, processes >>

\* The result has been read; the next function can be applied.
ProbeDone ==
    /\ probe.fn # "none"
    /\ probe' = NoProbe
    /\ UNCHANGED << permissions, skip_hitl, debug_tx, harness, session, files, processes >>

NextBench ==
    \/ \E r \in LineInputs : ProbeConfirm(r)
    \/ \E p \in PathInputs : ProbePath(p)
    \/ \E c \in RunCmdInputs, bash \in BashOutcomes : ProbeRunCmd(c, bash)
    \/ ProbeDone

SpecBench == InitCmd /\ [][NextBench]_vars

(***************************************************************************)
(* The file tools called one after the other on one tree.                  *)
(***************************************************************************)
\* Paths a tool call can carry: inside the workspace (existing file,
\* existing directory, missing, missing below a missing directory, below a
\* file), outside it, and the empty path.
FsPaths ==
    {EmptyPath, <<"a">>, <<"d">>, <<"n">>,
     <<"n", "/", "b">>, <<"a", "/", "b">>,
     <<"/", "s">>, <<".", ".", "/", "s">>, <<"d", "/", ".", ".", "/", "a">>}

FsContents == {<<>>, <<"x">>}
FsStrings == {<<>>, <<"x">>, <<"z">>}

\* The call made and what it returned.
Called(tool, path, args, io, r) ==
    /\ fs_call.n < MaxFsOps
    /\ fs' = r.fs
    /\ fs_call' = [n |-> fs_call.n + 1, tool |-> tool, path |-> path, args |-> args,
                   io |-> io, out |-> r.out, before |-> fs]
    /\ UNCHANGED << probe, permissions, skip_hitl, debug_tx, harness, session, processes >>

FsCreateFile(path, contents, io) ==
    Called("create_file", path, <<contents>>, io,
           CreateFileTool_call_inner(fs, path, contents, io))

FsEditFile(path, old_str, new_str, io) ==
    Called("edit_file", path, <<old_str, new_str>>, io,
           EditFileTool_call_inner(fs, path, old_str, new_str, io))

FsReadFile(path, io) ==
    Called("read_file", path, <<>>, io, ReadFileTool_call(fs, path, io))

FsReadDir(path, io) ==
    Called("read_dir", path, <<>>, io, ReadDirTool_call_inner(fs, path, io))

NextFs ==
    \/ \E path \in FsPaths, contents \in FsContents,
          io \in {"none", "metadata", "mkdir", "open", "write"} :
            FsCreateFile(path, contents, io)
    \/ \E path \in FsPaths, old_str \in FsStrings, new_str \in FsStrings,
          io \in {"none", "metadata", "read", "open", "write"} :
            FsEditFile(path, old_str, new_str, io)
    \/ \E path \in FsPaths, io \in {"none", "read"} : FsReadFile(path, io)
    \/ \E path \in FsPaths, io \in {"none", "metadata", "read"} : FsReadDir(path, io)

SpecFs == InitCmd /\ [][NextFs]_vars

(***************************************************************************)
(* The local config file (.agx/config.local.json) and the JSON that serde  *)
(* writes into it and reads from it.  A JSON document is kept as its       *)
(* value: an object is a function on its keys, an array a sequence, a      *)
(* string the characters between its quotes, escapes included.  The file   *)
(* holds <<document>>, or nothing after a write that failed.                *)
(***************************************************************************)
MaxStoreOps == 3

AgxDir == Append(Cwd, <<".", "a", "g", "x">>)
LocalConfigFile ==
    Append(AgxDir, <<"c", "o", "n", "f", "i", "g", ".", "l", "o", "c", "a", "l", ".",
                     "j", "s", "o", "n">>)

\* serde_json writing a string: the backslash, the double quote and control
\* characters are escaped.
RECURSIVE JsonEscape(_)
JsonEscape(s) ==
    IF s = <<>> THEN <<>>
    ELSE LET c == Head(s)
         IN  (CASE c = "\\" -> <<"\\", "\\">>
                [] c = DQuote -> <<"\\", DQuote>>
                [] c = "\n" -> <<"\\", "n">>
                [] c = "\t" -> <<"\\", "t">>
                [] OTHER -> <<c>>) \o JsonEscape(Tail(s))

\* serde_json reading a string: a Result [ok, val]; a bare quote or control
\* character, an unknown escape and a backslash at the end are errors.
RECURSIVE JsonUnescape(_)
JsonUnescape(s) ==
    IF s = <<>> THEN [ok |-> TRUE, val |-> <<>>]
    ELSE IF Head(s) \in {DQuote, "\n", "\t"} THEN [ok |-> FALSE, val |-> <<>>]
    ELSE IF Head(s) # "\\"
    THEN LET rest == JsonUnescape(Tail(s))
         IN  [ok |-> rest.ok, val |-> <<Head(s)>> \o rest.val]
    ELSE IF Len(s) < 2 \/ s[2] \notin {"\\", DQuote, "/", "n", "t"}
    THEN [ok |-> FALSE, val |-> <<>>]
    ELSE LET rest == JsonUnescape(SubSeq(s, 3, Len(s)))
             c == CASE s[2] = "n" -> "\n" [] s[2] = "t" -> "\t" [] OTHER -> s[2]
         IN  [ok |-> rest.ok, val |-> <<c>> \o rest.val]

\* Serialize for CmdPattern: first_arg is left out when it is None.
CmdPattern_serialize(p) ==
    IF p.first_arg = None
    THEN [binary |-> JsonEscape(p.binary)]
    ELSE [binary |-> JsonEscape(p.binary), first_arg |-> JsonEscape(p.first_arg[1])]

\* A reader that knows the binary only.
CmdPattern_deserialize_BinaryOnly(o) ==
    IF "binary" \notin DOMAIN o \/ ~JsonUnescape(o.binary).ok THEN CmdPatternErr
    ELSE [ok |-> TRUE,
          pattern |-> [binary |-> JsonUnescape(o.binary).val, first_arg |-> None]]

\* Deserialize for CmdPattern: a Result [ok, pattern]; binary is required, a
\* missing first_arg is None, other keys are ignored.
CmdPattern_deserialize(o) ==
    IF "binary" \notin DOMAIN o \/ ~JsonUnescape(o.binary).ok THEN CmdPatternErr
    ELSE IF "first_arg" \notin DOMAIN o
    THEN [ok |-> TRUE,
          pattern |-> [binary |-> JsonUnescape(o.binary).val, first_arg |-> None]]
    ELSE IF ~JsonUnescape(o.first_arg).ok THEN CmdPatternErr
    ELSE [ok |-> TRUE,
          pattern |-> [binary |-> JsonUnescape(o.binary).val,
                       first_arg |-> Some(JsonUnescape(o.first_arg).val)]]

\* The orders in which a HashSet can be iterated.
Orders(set) ==
    {o \in [1..Cardinality(set) -> set] : \A p \in set : \E k \in DOMAIN o : o[k] = p}

\* serde_json::to_string_pretty(&Config), the set iterated in the given order:
\* the only key is approved_commands.
Config_to_json(order) ==
    [approved_commands |-> [k \in DOMAIN order |-> CmdPattern_serialize(order[k])]]

\* serde_json::from_slice::<Config>: a Result [ok, err, val]; a missing
\* approved_commands is the default, the empty set.
Config_from_json(bytes) ==
    IF Len(bytes) = 0 THEN FsErr("couldn't parse file contents")
    ELSE LET doc == bytes[1]
             items == IF "approved_commands" \in DOMAIN doc
                      THEN doc.approved_commands ELSE <<>>
             read == {CmdPattern_deserialize(items[k]) : k \in DOMAIN items}
         IN  IF \E r \in read : ~r.ok THEN FsErr("couldn't parse file contents")
             ELSE FsOk({r.pattern : r \in read})

\* save_local_config: create_dir_all(".agx"), then tokio::fs::write.
save_local_config(tree, order, io) ==
    LET with_dir == (AgxDir :> Dir) @@ tree
    IN  IF AgxDir \notin DOMAIN tree /\ io = "mkdir"
        THEN Leaves(FsErr("couldn't create directory"), tree)
        ELSE IF io = "open"
        THEN Leaves(FsErr("couldn't write contents to file"), with_dir)
        ELSE IF io = "write"
        THEN Leaves(FsErr("couldn't write contents to file"),
                    (LocalConfigFile :> File(<<>>)) @@ with_dir)
        ELSE Leaves(FsOk(<<>>),
                    (LocalConfigFile :> File(<<Config_to_json(order)>>)) @@ with_dir)

\* get_config on the local config file: no file is the default Config.
get_config(tree, io) ==
    IF LocalConfigFile \notin DOMAIN tree THEN FsOk({})
    ELSE IF io = "read" THEN FsErr("couldn't read file")
    ELSE Config_from_json(tree[LocalConfigFile].bytes)

(***************************************************************************)
(* The store on its own: commands are approved for good, which saves the   *)
(* config, and the program is started again, which loads it.               *)
(***************************************************************************)
\* Command lines to approve: a binary alone, a binary and a first argument,
\* and words that hold a backslash, a double quote and a tab.
StoreCmds ==
    {Git, GitStatus, <<"'", "\\", "'">>, <<"'", DQuote, "'", " ", "'", "\t", "'">>}

\* A plausible slip: the config is saved before it takes the new set.
StoreApprove_SavesOldConfig(c, io) ==
    /\ fs_call.n < MaxStoreOps
    /\ CmdPattern_from_str(c).ok
    /\ LET set == ApprovedCmds_insert(approvals.approved_commands,
                                      CmdPattern_from_str(c).pattern)
       IN  /\ approvals' = [approvals EXCEPT !.approved_commands = set]
           /\ config' = set
           /\ \E order \in Orders(config) :
                LET r == save_local_config(fs, order, io)
                IN  /\ fs' = r.fs
                    /\ fs_call' = [n |-> fs_call.n + 1, tool |-> "save_local_config",
                                   path |-> <<>>, args |-> <<set>>, io |-> io,
                                   out |-> r.out, before |-> fs]
                    /\ disk' = IF r.out.ok THEN config ELSE disk
    /\ UNCHANGED << probe, skip_hitl, debug_tx, harness, session, processes >>

\* The "a" answer for run_cmd c, from save_approval on.
StoreApprove(c, io) ==
    /\ fs_call.n < MaxStoreOps
    /\ CmdPattern_from_str(c).ok
    /\ LET set == ApprovedCmds_insert(approvals.approved_commands,
                                      CmdPattern_from_str(c).pattern)
       IN  /\ approvals' = [approvals EXCEPT !.approved_commands = set]
           /\ config' = set
           /\ \E order \in Orders(set) :
                LET r == save_local_config(fs, order, io)
                IN  /\ fs' = r.fs
                    /\ fs_call' = [n |-> fs_call.n + 1, tool |-> "save_local_config",
                                   path |-> <<>>, args |-> <<set>>, io |-> io,
                                   out |-> r.out, before |-> fs]
                    /\ disk' = IF r.out.ok THEN set ELSE disk
    /\ UNCHANGED << probe, skip_hitl, debug_tx, harness, session, processes >>

\* The program is run again: get_local_config, then Session::new.  When the
\* config cannot be loaded no session starts.
StoreStart(io) ==
    /\ fs_call.n < MaxStoreOps
    /\ LET r == get_config(fs, io)
       IN  /\ fs_call' = [n |-> fs_call.n + 1, tool |-> "get_config", path |-> <<>>,
                          args |-> <<>>, io |-> io, out |-> r, before |-> fs]
           /\ IF r.ok
              THEN /\ config' = r.val
                   /\ approvals' = [fs_changes |-> FALSE, approved_commands |-> r.val]
              ELSE UNCHANGED << config, approvals >>
    /\ UNCHANGED << fs, disk, probe, skip_hitl, debug_tx, harness, session, processes >>

\* The "a" answer for a create_file or edit_file: the flag is set and nothing
\* is saved.
StoreApproveEdits(shape) ==
    /\ fs_call.n < MaxStoreOps
    /\ ~approvals.fs_changes
    /\ approvals' = Approvals_save_approval(approvals, ToolCall(1, shape)).approvals
    /\ fs_call' = [n |-> fs_call.n + 1, tool |-> "save_approval", path |-> <<>>,
                   args |-> <<shape.name>>, io |-> "none", out |-> FsOk(<<>>),
                   before |-> fs]
    /\ UNCHANGED << fs, config, disk, probe, skip_hitl, debug_tx, harness, session,
                    processes >>

NextStore ==
    \/ \E c \in StoreCmds, io \in {"none", "mkdir", "open", "write"} : StoreApprove(c, io)
    \/ \E shape \in {CreateFileShape, EditFileNoPreviewShape} : StoreApproveEdits(shape)
    \/ \E io \in {"none", "read"} : StoreStart(io)

SpecStore == InitCmd /\ [][NextStore]_vars

(***************************************************************************)
(* Properties of the turn engine.                                          *)
(***************************************************************************)
\* The tool results recorded in history after position i for call id.
ResultsFor(history, i, id) ==
    {jk \in UNION {{<<j, k>> : k \in 1..Len(history[j].results)} :
                       j \in (i + 1)..Len(history)} :
        history[jk[1]].results[jk[2]].id = id}

\* Every tool call of an assistant message has exactly one later result.
Paired(history) ==
    \A i \in 1..Len(history) :
        \A c \in 1..Len(history[i].calls) :
            Cardinality(ResultsFor(history, i, history[i].calls[c].id)) = 1

\* The last message of a history.
Last(history) == history[Len(history)]

\* The calls of the batch after the one in hand got reason as their result
\* in results, and were neither gated nor executed.
RestSkipped(results, reason) ==
    \A k \in (idx + 1)..Len(tool_calls) :
        /\ results[k] = make_tool_result(tool_calls[k].id, tool_calls[k].call_id, reason)
        /\ tool_calls[k].id \notin gated'
        /\ \A e \in executed' : e.id # tool_calls[k].id

\* The calls of the batch before the one in hand keep their results.
EarlierKept(results) ==
    /\ Len(tool_results) = idx - 1
    /\ \A k \in 1..(idx - 1) : results[k] = tool_results[k]

\* C1: whenever a turn has ended, every tool call of an assistant message in
\* the history has exactly one later tool result with its id -- also when the
\* turn ended by stream failure or interrupt in a second or later round-trip.
C1_EveryCallPairedAtTurnEnd ==
    pc \in {"returned", "idle"} => Paired(chat_history)

\* C1, the case at hand: a turn ended by stream failure or interrupt after an
\* earlier round-trip of it had committed tool calls.
C1_EndedInLaterRoundTrip ==
    /\ pc = "returned"
    /\ turn_end \in {"stream_error", "interrupted"}
    /\ requests >= 2

\* C2: a create_file, edit_file or run_cmd call is executed only after the
\* user answered its prompt with empty, "y" or "a", or after the permission
\* record matched it; no process-level setting lets it run otherwise.
C2_MutationsNeedConsent ==
    \A e \in executed :
        e.name \in {"create_file", "edit_file", "run_cmd"}
            => e.how \in {"prompt", "record"}

\* C2, the case at hand: a mutating call has been started.
C2_MutationStarted ==
    \E e \in executed : e.name \in {"create_file", "edit_file", "run_cmd"}

\* C3: one turn issues at most 30 completion requests, whatever the model
\* returns.
C3_AtMostThirtyRequestsPerTurn == requests <= 30

\* C3, the case at hand: a turn whose every response so far asked for a tool.
C3_EveryResponseAskedForTool ==
    /\ pc = "request"
    /\ requests = 30
    /\ next_id = 30

\* C4: when the gate answers Rejected for call idx of the batch, the earlier
\* calls keep their results, the call gets the rejection result, every later
\* call gets a skipped result and is neither gated nor executed, all results
\* are appended to the history as one User message, and the turn ends with
\* no further completion request.
C4_RejectedEndsTurn ==
    [][(pc = "confirm" /\ confirmation' = "Rejected") =>
          /\ chat_history' = Append(chat_history, Last(chat_history'))
          /\ Last(chat_history').role = "user"
          /\ Len(Last(chat_history').results) = Len(tool_calls)
          /\ EarlierKept(Last(chat_history').results)
          /\ Last(chat_history').results[idx] =
                 make_tool_result(tool_calls[idx].id, tool_calls[idx].call_id,
                                  UserRejected)
          /\ RestSkipped(Last(chat_history').results, SkippedRejected)
          /\ pc' = "returned"
          /\ issued' = issued
          /\ requests' = requests]_vars

\* C4, the case at hand: a rejected call with a later call skipped.
C4_RejectedWithSkipped ==
    /\ pc = "returned"
    /\ turn_end = "rejected"
    /\ Len(Last(chat_history).results) >= 2
    /\ Last(chat_history).results[Len(Last(chat_history).results)].text = SkippedRejected

\* C5: when the gate answers FeedbackProvided(text) for call idx of the batch,
\* the call gets a result containing the text, every later call gets a
\* skipped result and is neither gated nor executed, and the engine goes on
\* to a further completion request whose prompt is the bundle of all results
\* of the batch: the turn does not end there.
C5_FeedbackContinuesTurn ==
    [][(pc = "confirm" /\ confirmation' = "FeedbackProvided") =>
          /\ pc' = "request"
          /\ turn_end' = "none"
          /\ requests' = requests + 1
          /\ chat_history' = chat_history
          /\ prompt' = ToolResultsMessage(prompt'.results)
          /\ Len(prompt'.results) = Len(tool_calls)
          /\ EarlierKept(prompt'.results)
          /\ \E r \in ReadlineResults :
                 /\ ConfirmDecision(r) = "FeedbackProvided"
                 /\ prompt'.results[idx] =
                        make_tool_result(tool_calls[idx].id, tool_calls[idx].call_id,
                            TextWith("user rejected tool call with feedback: ",
                                     trim(r.input)))
          /\ RestSkipped(prompt'.results, SkippedFeedback)]_vars

\* C5, the case at hand: feedback on a call with a later call skipped, and
\* the bundle on its way to the model.
C5_FeedbackWithSkipped ==
    /\ pc = "streaming"
    /\ confirmation = "FeedbackProvided"
    /\ Len(prompt.results) >= 2
    /\ prompt.results[Len(prompt.results)].text = SkippedFeedback

\* C6: when the user interrupt occurs while an approved tool call is
\* executing, the call's result is exactly "tool call interrupted by user",
\* every later call gets a skipped result and is never executed, the results
\* are committed to the history, and the turn ends with no further request.
C6_InterruptedToolEndsTurn ==
    [][(pc = "execute" /\ signals' # signals) =>
          /\ pc' = "returned"
          /\ issued' = issued
          /\ chat_history' = Append(chat_history, Last(chat_history'))
          /\ Len(Last(chat_history').results) = Len(tool_calls)
          /\ Last(chat_history').results[idx].text = InterruptedByUser
          /\ RestSkipped(Last(chat_history').results, SkippedInterrupted)]_vars

\* C6, the case at hand: run_cmd was interrupted while running, and its
\* result is on its way to the model.
C6_CommandInterrupted ==
    /\ signals > 0
    /\ pc = "request"
    /\ \E k \in 1..Len(prompt.results) : prompt.results[k].text.msg = Interrupted.msg

\* C7: when the interrupt arrives while a completion is streamed, whatever
\* was received, the history is as it was before the round-trip started, the
\* interrupted event is published (to the debug channel, when there is one),
\* no tool call of the stream is gated or executed, and the turn ends.
C7_StreamInterruptDiscards ==
    [][/\ (pc \in {"request", "streaming"} /\ pc' = "streaming")
            => chat_history' = chat_history
       /\ (pc \in {"request", "streaming"} /\ signals' # signals) =>
             /\ chat_history' = chat_history
             /\ pc' = "returned"
             /\ turn_end' = "interrupted"
             /\ (debug_tx => published' = "interrupted")
             /\ gated' = gated
             /\ executed' = executed
             /\ tool_calls' = <<>>
             /\ issued' = issued]_vars

\* C7, the case at hand: a tool call had been streamed when the interrupt
\* came, in the first round-trip of the session.
C7_InterruptedAfterItems ==
    /\ pc = "returned"
    /\ turn_end = "interrupted"
    /\ published = "interrupted"
    /\ next_id > 1
    /\ chat_history = <<>>
    /\ gated = {}
    /\ executed = {}

\* C8: when the completion stream fails, no assistant message and no prompt
\* of that round-trip is appended, the history from before the turn is
\* untouched, the turn ends, and the next turn can be started.
C8_StreamFailureDiscards ==
    /\ [][/\ (pc \in {"request", "streaming"} /\ stream' = "failed") =>
                /\ chat_history' = chat_history
                /\ pc' = "returned"
                /\ turn_end' = "stream_error"
          /\ Len(chat_history') >= Len(chat_history)
          /\ SubSeq(chat_history', 1, Len(chat_history)) = chat_history]_vars
    /\ [](pc = "returned" => ENABLED TurnComplete)
    /\ []((pc = "idle" /\ Spent < MaxEvents) => ENABLED SubmitPrompt(MaxEvents))

\* C8, the case at hand: a stream failed in the second round-trip of a turn,
\* and the next turn has been started.
C8_NextTurnAfterFailure ==
    /\ pc = "request"
    /\ requests = 1
    /\ stream = "failed"
    /\ turn_end = "none"
    /\ Len(chat_history) = 2

(***************************************************************************)
(* Properties of the command matcher.                                      *)
(***************************************************************************)
Commit == <<"c", "o", "m", "m", "i", "t">>

GitAny == [binary |-> Git, first_arg |-> None]
GitCommit == [binary |-> Git, first_arg |-> Some(Commit)]

\* C9: with the pattern of binary git and no first argument approved,
\* is_approved answers true for "git status" and for "git commit -m x".
C9_BinaryPatternMatchesAnyArgs ==
    (GitAny \in approvals.approved_commands
        /\ cmd \in {GitStatus, GitCommitMX}
        /\ cmd_out # "none")
    => cmd_out = "approved"

\* C9, the case at hand: "git status" was put to the matcher with the git
\* pattern approved.
C9_GitStatusChecked ==
    /\ GitAny \in approvals.approved_commands
    /\ cmd = GitStatus
    /\ cmd_out # "none"

\* C10: a pattern recorded with a first argument approves exactly the
\* invocations of its binary with that first argument: with only git commit
\* approved, "git commit -m x" is approved, and "git push", any other first
\* argument and any other binary are not.
C10_FirstArgPatternIsExact ==
    (cmd_out # "none"
        /\ \A p \in approvals.approved_commands : p.first_arg # None)
    => LET c == shlex_split(cmd)
       IN  cmd_out = "approved" <=>
               /\ c.ok
               /\ Len(c.words) >= 2
               /\ \E p \in approvals.approved_commands :
                      p.binary = c.words[1] /\ p.first_arg[1] = c.words[2]

\* C10, the case at hand: with only git commit approved, "git push" was put
\* to the matcher.
C10_GitPushChecked ==
    /\ approvals.approved_commands = {GitCommit}
    /\ cmd = GitPush
    /\ cmd_out = "denied"


(***************************************************************************)
(* Properties of the path sandbox.                                         *)
(***************************************************************************)
\* A ".." that fills a whole '/'-separated segment of the path, found by
\* position in the text.
HasDotDotSegment(p) ==
    \E i \in 1..(Len(p) - 1) :
        /\ p[i] = "." /\ p[i + 1] = "."
        /\ (i = 1 \/ p[i - 1] = "/")
        /\ (i + 1 = Len(p) \/ p[i + 2] = "/")

\* C13: is_path_in_workspace(p) is false exactly when p is absolute or some
\* component of p is ".."; it is true for every other path, the empty path,
\* "./file" and names that merely contain dots included.
C13_SandboxRejectsAbsoluteAndParent ==
    probe.fn = "is_path_in_workspace" =>
        /\ probe.out = ~(Path_is_absolute(probe.arg) \/ HasDotDotSegment(probe.arg))
        /\ probe.arg \in {EtcPasswd, DotDotSecret, SrcDotDotMainRs} => ~probe.out
        /\ probe.arg \in {EmptyPath, DotSlashFile, FileTarGz, SrcMainRs,
                          <<"a", ".", ".">>, <<".", ".", "a">>, <<".", ".", ".">>}
               => probe.out

\* A path with ".." in the middle has been refused.
C13_ParentInTheMiddleRefused ==
    /\ probe.fn = "is_path_in_workspace"
    /\ probe.arg = SrcDotDotMainRs
    /\ probe.out = FALSE


(***************************************************************************)
(* Properties of the answer read at the confirmation prompt.               *)
(***************************************************************************)
Blanks(n) == [k \in 1..n |-> " "]

\* t is line without the blanks around it.
IsTrimOf(t, line) ==
    /\ t = <<>> \/ (t[1] # " " /\ t[Len(t)] # " ")
    /\ \E i, j \in 0..Len(line) : line = Blanks(i) \o t \o Blanks(j)

\* C14: when the gate prompts the user, its outcome is a function of the
\* trimmed input only: empty or "y" gives Approved, "a" gives AutoApproved,
\* "n" or "no" gives Rejected, and every other non-empty text gives
\* FeedbackProvided carrying that text.
C14_GateOutcomeFollowsTrimmedInput ==
    (probe.fn = "confirm_tool_call" /\ probe.arg.ok) =>
        \E t \in SeqsUpTo(LineAlphabet, Len(probe.arg.input)) :
            /\ IsTrimOf(t, probe.arg.input)
            /\ probe.out.decision =
                   IF t \in {<<>>, <<"y">>} THEN "Approved"
                   ELSE IF t = <<"a">> THEN "AutoApproved"
                   ELSE IF t \in {<<"n">>, <<"n", "o">>} THEN "Rejected"
                   ELSE "FeedbackProvided"
            /\ probe.out.decision = "FeedbackProvided" => probe.out.text = t

\* A line with blanks around a text that is none of the fixed answers has
\* been read as feedback.
C14_PaddedFeedbackRead ==
    /\ probe.fn = "confirm_tool_call"
    /\ probe.arg.ok
    /\ probe.arg.input = <<" ", "o", " ">>
    /\ probe.out = [decision |-> "FeedbackProvided", text |-> <<"o">>]


(***************************************************************************)
(* Properties of run_cmd's validation.                                     *)
(***************************************************************************)
\* The command line is nothing but whitespace.
AllBlank(c) == \A k \in 1..Len(c) : c[k] \in Whitespace

\* The deny-list entries found somewhere in the command line.
DeniedIn(c) ==
    {k \in 1..Len(BLOCKED_CMD_PATTERNS) :
        \E i \in 1..Len(c) :
            /\ i + Len(BLOCKED_CMD_PATTERNS[k]) - 1 <= Len(c)
            /\ SubSeq(c, i, i + Len(BLOCKED_CMD_PATTERNS[k]) - 1) = BLOCKED_CMD_PATTERNS[k]}

\* C18: run_cmd returns the empty-command error for a command that is empty
\* after trimming, and the forbidden-pattern error for any other command
\* holding a deny-list entry as a substring; in both cases no process is
\* spawned. A command with neither defect is run through the shell, and its
\* exit status is reported in a successful result even when it is non-zero.
C18_RunCmdValidation ==
    probe.fn = "call_inner" =>
        LET c == probe.arg.command
            r == probe.out.result
        IN  IF AllBlank(c)
            THEN r = [ok |-> FALSE, val |-> CmdIsEmpty] /\ ~probe.out.spawned
            ELSE IF DeniedIn(c) # {}
            THEN /\ ~r.ok
                 /\ \E k \in DeniedIn(c) :
                        r.val = CmdContainsForbiddenPattern(BLOCKED_CMD_PATTERNS[k])
                 /\ ~probe.out.spawned
            ELSE /\ probe.out.spawned
                 /\ probe.arg.bash = "exit_zero" =>
                        r = [ok |-> TRUE, val |-> Text("{success:true,status_code:0}")]
                 /\ probe.arg.bash = "exit_nonzero" =>
                        r = [ok |-> TRUE, val |-> Text("{success:false,status_code:1}")]

\* A command of blanks only has been refused as empty without a spawn.
C18_BlankCommandRefused ==
    /\ probe.fn = "call_inner"
    /\ probe.arg.command = <<" ", "\t">>
    /\ probe.out = [result |-> [ok |-> FALSE, val |-> CmdIsEmpty], spawned |-> FALSE]


(***************************************************************************)
(* Properties of the file tools.                                           *)
(***************************************************************************)
FileTools == {"create_file", "edit_file", "read_file", "read_dir"}

\* C12: every filesystem tool (create_file, edit_file, read_file, read_dir)
\* returns an error result and touches no file or directory when its path is
\* absolute or holds a ".." component.
C12_FileToolsRefuseOutsidePaths ==
    (/\ fs_call.tool \in FileTools
     /\ Path_is_absolute(fs_call.path) \/ HasDotDotSegment(fs_call.path))
        => ~fs_call.out.ok /\ fs = fs_call.before

\* read_file has been given an absolute path outside the workspace and has
\* returned the file's contents.
C12_OutsideFileRead ==
    /\ fs_call.tool = "read_file"
    /\ fs_call.path = <<"/", "s">>
    /\ fs_call.out = FsOk(<<"x">>)


\* The location create_file's path names in the workspace.
CreateTarget == Locate(Cwd, Path_components(fs_call.path), 1)

\* C20: create_file never changes an existing filesystem entry: if the target
\* already exists as a file or as a directory the call fails and the entry is
\* unchanged; only when the target does not exist are missing parent
\* directories created and the contents written.
C20_CreateFileKeepsExistingEntries ==
    fs_call.tool = "create_file" =>
        /\ \A l \in DOMAIN fs_call.before : l \in DOMAIN fs /\ fs[l] = fs_call.before[l]
        /\ (fs_call.path # <<>> /\ fs_metadata(fs_call.before, fs_call.path).err = "none")
              => ~fs_call.out.ok /\ fs = fs_call.before
        /\ fs # fs_call.before =>
              /\ is_path_in_workspace(fs_call.path)
              /\ CreateTarget \notin DOMAIN fs_call.before
              /\ DOMAIN fs \ DOMAIN fs_call.before \subseteq
                     Ancestors(CreateTarget) \cup {CreateTarget}
        /\ fs_call.out.ok =>
              /\ CreateTarget \notin DOMAIN fs_call.before
              /\ \A l \in Ancestors(CreateTarget) : l \in DOMAIN fs /\ fs[l] = Dir
              /\ fs[CreateTarget] = File(fs_call.args[1])

\* create_file has been called on the existing file a and has failed, the
\* file keeping its bytes.
C20_ExistingFileRefused ==
    /\ fs_call.tool = "create_file"
    /\ fs_call.path = <<"a">>
    /\ fs_call.io = "none"
    /\ fs_call.out = FsErr(FsError.AlreadyExists)
    /\ fs[Append(Cwd, <<"a">>)] = File(<<"x", "y", "x">>)


\* old occurs somewhere in text.
Occurs(old, text) ==
    \E i \in 1..(Len(text) + 1) :
        i + Len(old) - 1 <= Len(text) /\ SubSeq(text, i, i + Len(old) - 1) = old

\* The path of the call made last names a regular file of the tree before it.
TargetIsFile ==
    /\ fs_call.path # <<>>
    /\ fs_metadata(fs_call.before, fs_call.path).err = "none"
    /\ fs_call.before[fs_metadata(fs_call.before, fs_call.path).loc].kind = "file"

TargetBytes == fs_call.before[fs_metadata(fs_call.before, fs_call.path).loc].bytes

ResultsAfter ==
    IF pc' = "batch" THEN tool_results'
    ELSE IF pc' = "request" THEN prompt'.results
    ELSE Last(chat_history').results

RmRf == <<"r", "m", " ", "-", "r", "f">>
RmRfPattern == [binary |-> <<"r", "m">>, first_arg |-> Some(<<"-", "r", "f">>)]

\* C11: in any state of the permission record, also when the command's own
\* pattern is approved or the user answers "a", a run_cmd whose command line
\* holds a deny-list entry (e.g. "rm -rf /tmp/x") fails validation, spawns no
\* process and yields an error result.
C11_DenyListOverridesApproval ==
    [][/\ \A s \in spawned' \ spawned : DeniedIn(s.command) = {}
       /\ (/\ pc = "execute"
           /\ tool_calls[idx].name = "run_cmd"
           /\ DeniedIn(tool_calls[idx].command) # {}
           /\ signals' = signals)
             => /\ spawned' = spawned
                /\ \/ \E k \in DeniedIn(tool_calls[idx].command) :
                         ResultsAfter[idx].text =
                             Prefixed("error: ",
                                      CmdContainsForbiddenPattern(BLOCKED_CMD_PATTERNS[k]))
                   \/ cancelled /\ ResultsAfter[idx].text = Prefixed("error: ", Interrupted)]_vars

\* "rm -rf /tmp/x" has run on the strength of its approved pattern, and its
\* result is the forbidden-pattern error.
C11_ApprovedRmRfRefused ==
    /\ RmRfPattern \in approvals.approved_commands
    /\ pc = "request"
    /\ spawned = {}
    /\ \E k \in 1..Len(prompt.results) :
          /\ prompt.results[k].text = Prefixed("error: ", CmdContainsForbiddenPattern(RmRf))
          /\ \E e \in executed : e.id = prompt.results[k].id /\ e.how = "record"


\* The pattern save_approval records for the command of a run_cmd call.
PatternOf(tc) == CmdPattern_from_str(tc.command).pattern

GitStatusPattern ==
    [binary |-> <<"g", "i", "t">>, first_arg |-> Some(<<"s", "t", "a", "t", "u", "s">>)]

\* C15: after the user answers "a" to the prompt for a run_cmd, the command's
\* pattern is in the approved set before the call executes, and every later
\* run_cmd with the same pattern in the session is AutoApproved with no
\* prompt shown.
C15_AlwaysAnswerIsRemembered ==
    [][/\ (/\ pc = "confirm"
           /\ tool_calls[idx].name = "run_cmd"
           /\ pc' = "execute"
           /\ confirmation' = "AutoApproved")
             => PatternOf(tool_calls[idx]) \in approvals'.approved_commands
       /\ approvals.approved_commands \subseteq approvals'.approved_commands
       /\ (/\ pc = "batch"
           /\ idx \in 1..Len(tool_calls)
           /\ tool_calls[idx].name = "run_cmd"
           /\ tool_calls[idx].valid
           /\ ~skip_hitl
           /\ PatternOf(tool_calls[idx]) \in approvals.approved_commands)
             => /\ pc' = "execute"
                /\ confirmation' = "AutoApproved"
                /\ \E e \in executed' : e.id = tool_calls[idx].id /\ e.how = "record"]_vars

\* "git status" was approved with "a", and a later "git status" is being
\* executed on the strength of the recorded pattern.
C15_SecondGitStatusAutoApproved ==
    /\ pc = "execute"
    /\ confirmation = "AutoApproved"
    /\ tool_calls[idx].command = GitStatus
    /\ GitStatusPattern \in approvals.approved_commands
    /\ \E e \in executed : e.id = tool_calls[idx].id /\ e.how = "record"
    /\ \E e \in executed : e.id < tool_calls[idx].id /\ e.how = "prompt"


ReadingTools == {"read_file", "read_dir"}

\* C16: read_file and read_dir calls are always Approved without consulting
\* the permission record and without any prompt, in every state; they never
\* change the permission record.
C16_ReadingToolsBypassGate ==
    [][/\ (/\ pc = "batch"
           /\ idx \in 1..Len(tool_calls)
           /\ tool_calls[idx].name \in ReadingTools
           /\ tool_calls[idx].valid)
             => /\ pc' = "execute"
                /\ confirmation' = "Approved"
                /\ \E e \in executed' : e.id = tool_calls[idx].id /\ e.how = "ungated"
                /\ gated' = gated
                /\ UNCHANGED permissions
       /\ pc' = "confirm" => tool_calls'[idx'].name \notin ReadingTools
       /\ (/\ pc \in {"batch", "execute"}
           /\ idx \in 1..Len(tool_calls)
           /\ tool_calls[idx].name \in ReadingTools)
             => UNCHANGED permissions]_vars

\* read_dir is being executed as Approved, ungated, in a session whose
\* permission record holds an approved command.
C16_ReadDirRunsUngated ==
    /\ pc = "execute"
    /\ tool_calls[idx].name = "read_dir"
    /\ confirmation = "Approved"
    /\ tool_calls[idx].id \notin gated
    /\ approvals.approved_commands # {}


\* The call in hand cannot be parsed, or its preview cannot be built.
FailsBeforeGate ==
    /\ pc = "batch"
    /\ idx \in 1..Len(tool_calls)
    /\ \/ ~AgxToolCall_try_from(tool_calls[idx]).ok
       \/ /\ AgxToolCall_needs_confirmation(tool_calls[idx])
          /\ ~AgxToolCall_details(tool_calls[idx]).ok

\* execute() returns for the call in hand, with an error or without.
ExecuteReturns == pc = "execute" /\ signals' = signals

\* C17: no tool-level failure ends the turn: a tool call that cannot be
\* parsed, fails validation (bad arguments, sandbox violation, deny-listed
\* command), fails while its preview is built, or runs a command that exits
\* non-zero yields one tool result for that call, the remaining calls of the
\* batch are still processed, and the results are sent to the model in a
\* further round-trip.
C17_ToolFailureKeepsTurnGoing ==
    [][(FailsBeforeGate \/ ExecuteReturns) =>
          /\ pc' \in {"batch", "request"}
          /\ turn_end' = turn_end
          /\ chat_history' = chat_history
          /\ Len(ResultsAfter) = idx
          /\ EarlierKept(ResultsAfter)
          /\ ResultsAfter[idx].id = tool_calls[idx].id
          /\ FailsBeforeGate =>
                /\ ResultsAfter[idx].text.pre # "" \/ ~AgxToolCall_details(tool_calls[idx]).ok
                /\ executed' = executed
          /\ IF idx < Len(tool_calls)
             THEN pc' = "batch" /\ idx' = idx + 1 /\ tool_calls' = tool_calls
             ELSE /\ pc' = "request"
                  /\ prompt' = ToolResultsMessage(ResultsAfter)
                  /\ requests' = requests + 1]_vars

\* A batch of a call to an unknown tool, a deny-listed command and a command
\* that exited non-zero has been worked through, and its three results are on
\* their way to the model.
C17_FailuresSentToModel ==
    /\ pc = "request"
    /\ requests >= 2
    /\ Len(prompt.results) = 3
    /\ prompt.results[1].text.pre = "failed to parse tool call: "
    /\ prompt.results[2].text = Prefixed("error: ", CmdContainsForbiddenPattern(RmRf))
    /\ prompt.results[3].text = Text("{success:false,status_code:1}")

(***************************************************************************)
(* Properties of the permission record's storage.                          *)
(***************************************************************************)
\* The step loads the config.
Loads == fs_call'.n = fs_call.n + 1 /\ fs_call'.tool = "get_config"

\* The step before saved the config, and the write succeeded.
JustSaved == fs_call.tool = "save_local_config" /\ fs_call.out.ok

\* C21: loading the permission record after saving it yields exactly the set
\* of command patterns that was saved, for patterns with and without a first
\* argument; loading when nothing was saved yields the empty set.
C21_SaveLoadRoundTrip ==
    [][Loads =>
          /\ (JustSaved /\ fs_call'.io = "none")
                => /\ fs_call'.out = FsOk(fs_call.args[1])
                   /\ config' = fs_call.args[1]
                   /\ approvals'.approved_commands = fs_call.args[1]
          /\ LocalConfigFile \notin DOMAIN fs
                => fs_call'.out = FsOk({}) /\ config' = {}]_vars

\* A set of two patterns, one with a first argument and one whose binary
\* holds a backslash, was saved and has been loaded back.
C21_TwoPatternsLoaded ==
    /\ fs_call.tool = "get_config"
    /\ fs_call.out.ok
    /\ Cardinality(config) = 2
    /\ \E p \in config : p.first_arg # None
    /\ \E p \in config : p.first_arg = None /\ \E k \in DOMAIN p.binary : p.binary[k] = "\\"
    /\ LocalConfigFile \in DOMAIN fs

(***************************************************************************)
(* Properties of the cancellation flag.                                    *)
(***************************************************************************)
\* The tool call in hand is the first one of the turn to be executed.
FirstToolOfTurn ==
    /\ requests = 1
    /\ \A j \in 1..(idx - 1) : \A e \in executed : e.id # tool_calls[j].id

\* A user-submitted turn starts.
TurnStarts == pc = "idle" /\ pc' = "request"

SignalledAgain == cancelled /\ signals' = signals + 1

\* C23: an interrupt signalled while the cancellation flag is already set
\* leaves the flag set and triggers nothing further: no tool result, no
\* interrupted event and no end of the turn comes of it.
C23_SecondInterruptIsNoOp ==
    [][SignalledAgain =>
          /\ cancelled'
          /\ pc' = pc
          /\ turn_end' = turn_end
          /\ tool_results' = tool_results
          /\ chat_history' = chat_history
          /\ published' = published]_vars

\* run_cmd took the first interrupt and the batch went on; a second interrupt
\* during read_file ended the turn with an "interrupted by user" result.
C23_SecondInterruptEndedTurn ==
    /\ signals = 2
    /\ cancelled
    /\ turn_end = "tool_interrupted"
    /\ Len(Last(chat_history).results) = 2
    /\ Last(chat_history).results[1].text = Prefixed("error: ", Interrupted)
    /\ Last(chat_history).results[2].text = InterruptedByUser

\* The step records an interrupted result for the run_cmd in hand.
RecordsInterrupted ==
    /\ pc = "execute"
    /\ tool_calls[idx].name = "run_cmd"
    /\ ResultsAfter[idx].text \in {InterruptedByUser, Prefixed("error: ", Interrupted)}

\* C24: when a running run_cmd is cancelled its shell is terminated: once
\* the interrupted result has been recorded the shell is no longer running.
C24_CancelledShellTerminated ==
    [][RecordsInterrupted =>
          \A s \in spawned' : s.id = tool_calls[idx].id => ~s.left_running]_vars

\* The shell of "git status" was spawned, the user interrupted it, the
\* result "tool call interrupted by user" is in the history, and the shell
\* was left running.
C24_ShellLeftRunning ==
    /\ turn_end = "tool_interrupted"
    /\ \E s \in spawned :
          /\ s.left_running
          /\ s.command = GitStatus
          /\ \E k \in 1..Len(Last(chat_history).results) :
                /\ Last(chat_history).results[k].id = s.id
                /\ Last(chat_history).results[k].text = InterruptedByUser

(***************************************************************************)
(* Properties of the debug channel.                                        *)
(***************************************************************************)
\* What the engine holds, the event last sent aside.
EngineState ==
    << pc, chat_history, prompt, response_text, tool_calls, tool_results, idx,
       confirmation, cancelled, next_id, chunks, issued, requests, turn_end, executed,
       gated, signals, stream, approvals, config, disk >>

\* The step is a send on the debug channel.
Sends == bus'.sends = bus.sends + 1

NoReceiver == \A s \in SubIds : ~bus.subs[s].attached

\* Subscriber s has fallen behind the values the channel retains.
Lagging(s) == bus.subs[s].attached /\ bus.subs[s].next < Oldest(bus)

\* The step is a read by subscriber s.
Reads(s) ==
    /\ bus.subs[s].attached
    /\ bus'.subs[s].attached
    /\ bus'.subs[s].next # bus.subs[s].next

\* C25: sending a debug event never blocks and never fails the engine: with
\* no subscriber, or with one that has fallen behind the bounded buffer, the
\* send can be taken at once, it leaves the engine's state as it is, and the
\* slow subscriber loses the overwritten events without being told.
C25_PublishingNeverStallsEngine ==
    /\ [](bus.sends < MaxSends => \A kind \in EventKinds : ENABLED BusSend(kind))
    /\ [][/\ Sends =>
               /\ UNCHANGED EngineState
               /\ bus'.subs = bus.subs
               /\ bus'.log = IF NoReceiver THEN bus.log
                             ELSE Append(bus.log, [kind |-> published',
                                                   seq |-> bus'.sends])
          /\ \A s \in SubIds :
                (Lagging(s) /\ Reads(s)) =>
                   /\ bus'.subs[s].got = bus.subs[s].got
                   /\ bus'.subs[s].next = Oldest(bus)
                   /\ bus'.subs[s].missed = bus.subs[s].missed + Oldest(bus) - bus.subs[s].next
                   /\ UNCHANGED EngineState]_vars

\* Events were sent with nobody listening and dropped; later a subscriber
\* fell behind, lost events, and went on to receive the ones after them.
C25_SlowSubscriberLostEvents ==
    /\ bus.sends = MaxSends
    /\ Len(bus.log) < bus.sends
    /\ \E s \in SubIds :
          /\ bus.subs[s].attached
          /\ bus.subs[s].missed > 0
          /\ bus.subs[s].got # <<>>

\* C26: a subscriber never receives an event sent before it subscribed, and
\* it receives events in the order in which they were sent, whatever the
\* other subscribers have or have not read.
C26_OnlyLaterEventsInOrder ==
    \A s \in SubIds :
        LET got == bus.subs[s].got
        IN  /\ \A k \in DOMAIN got : got[k].seq > bus.subs[s].since
            /\ \A j, k \in DOMAIN got : j < k => got[j].seq < got[k].seq

\* A subscriber that connected after the first events has received two later
\* ones, while the other subscriber, connected from the start, has read none.
C26_LateSubscriberReceivedTwo ==
    \E s, o \in SubIds :
        /\ s # o
        /\ bus.subs[s].since > 0
        /\ Len(bus.log) > 2
        /\ Len(bus.subs[s].got) = 2
        /\ bus.subs[o].attached
        /\ bus.subs[o].since = 0
        /\ bus.subs[o].got = <<>>

(***************************************************************************)
(* Properties of the order of validation and confirmation.                 *)
(***************************************************************************)
\* The run_cmd call is one RunCmdTool::call_inner refuses before any shell:
\* its command is blank or holds a deny-list entry.
FailsValidation(tc) == tc.name = "run_cmd" /\ ~RunCmdTool_validate(tc.command).ok

\* C27: validation comes before the confirmation gate: the gate is never
\* entered for a call that fails validation, the user is never prompted for
\* it, and the step that handles it leaves the permission record as it was.
C27_ValidationBeforeGate ==
    /\ [](\A k \in 1..Len(tool_calls) :
             FailsValidation(tool_calls[k]) => tool_calls[k].id \notin gated)
    /\ [](pc = "confirm" => ~FailsValidation(tool_calls[idx]))
    /\ [][(/\ pc \in {"batch", "confirm", "execute"}
           /\ idx \in 1..Len(tool_calls)
           /\ FailsValidation(tool_calls[idx]))
             => UNCHANGED permissions]_vars

\* The user was prompted for "rm -rf /tmp/x" and answered "a": the pattern
\* "rm -rf" is in the record and on disk, and only now, in execute, is the
\* command going to be refused.
C27_DeniedCommandPromptedAndRecorded ==
    /\ pc = "execute"
    /\ FailsValidation(tool_calls[idx])
    /\ tool_calls[idx].id \in gated
    /\ confirmation = "AutoApproved"
    /\ \E e \in executed : e.id = tool_calls[idx].id /\ e.how = "prompt"
    /\ RmRfPattern \in approvals.approved_commands
    /\ RmRfPattern \in disk
    /\ spawned = {}

(***************************************************************************)
(* Properties of the permission record during a session.                   *)
(***************************************************************************)
\* The step is the user's "a" at a confirmation prompt.
AnsweredAlways ==
    /\ pc = "confirm"
    /\ pc' = "execute"
    /\ confirmation' = "AutoApproved"
    /\ \E e \in executed' \ executed : e.id = tool_calls[idx].id /\ e.how = "prompt"

\* C28: the permission record changes only in the step in which the user
\* answers "a" at a confirmation prompt; every other decision, tool
\* execution, stream failure and interrupt leaves the flag and the approved
\* set as they were, and no step removes a pattern or clears the flag.
C28_RecordChangesOnlyOnAlways ==
    [][/\ approvals' # approvals => AnsweredAlways
       /\ approvals.approved_commands \subseteq approvals'.approved_commands
       /\ approvals.fs_changes => approvals'.fs_changes]_vars

\* "git status" was approved with "a", a later "git status" was auto-approved
\* from the record and interrupted while it ran: the pattern is still there.
C28_RecordKeptThroughInterrupt ==
    /\ GitStatusPattern \in approvals.approved_commands
    /\ signals > 0
    /\ turn_end = "tool_interrupted"
    /\ \E e \in executed : e.how = "prompt"
    /\ \E e \in executed : e.how = "record"

(***************************************************************************)
(* Properties of the record in memory against the record in the file.      *)
(***************************************************************************)
\* What a start of the program would load from the tree: a Result.
Persisted(tree) == get_config(tree, "none")

\* The step is a start of the program that got its config.
SessionStarts == fs_call'.n # fs_call.n /\ fs_call'.tool = "get_config" /\ fs_call'.out.ok

\* The step changes the approved set in memory and saves it with success.
ChangeSaved ==
    /\ fs_call'.n # fs_call.n
    /\ fs_call'.tool = "save_local_config"
    /\ fs_call'.out.ok
    /\ approvals'.approved_commands # approvals.approved_commands

\* The keys the file's document may hold.
OnlyApprovedCommands(tree) ==
    LocalConfigFile \in DOMAIN tree =>
        \A k \in DOMAIN tree[LocalConfigFile].bytes :
            LET doc == tree[LocalConfigFile].bytes[k]
            IN  /\ DOMAIN doc = {"approved_commands"}
                /\ \A i \in DOMAIN doc.approved_commands :
                      DOMAIN doc.approved_commands[i] \subseteq {"binary", "first_arg"}

\* C29: when a session starts, the approved set in memory is the persisted
\* one and the flag is false; after a change of the set in memory whose save
\* succeeded, the persisted set is the one in memory; and the file never
\* holds the file-mutation flag.
C29_MemoryAndStorageAgree ==
    /\ [](OnlyApprovedCommands(fs))
    /\ [](Persisted(fs).ok => Persisted(fs).val = disk)
    /\ [][/\ SessionStarts =>
               /\ Persisted(fs').ok
               /\ approvals'.approved_commands = Persisted(fs').val
               /\ approvals'.approved_commands = disk'
               /\ ~approvals'.fs_changes
          /\ ChangeSaved =>
               /\ Persisted(fs').ok
               /\ Persisted(fs').val = approvals'.approved_commands
               /\ disk' = approvals'.approved_commands]_vars

\* Edits and two commands were approved in one session, the second save
\* succeeded, and the file holds the two patterns and nothing of the flag.
C29_FlagSetAndTwoPatternsSaved ==
    /\ approvals.fs_changes
    /\ Cardinality(approvals.approved_commands) = 2
    /\ fs_call.tool = "save_local_config"
    /\ fs_call.out.ok
    /\ Persisted(fs).ok
    /\ Persisted(fs).val = approvals.approved_commands

(***************************************************************************)
(* Properties of a save that fails.                                        *)
(***************************************************************************)
\* The line the user types to approve for good.
AlwaysAnswer == [ok |-> TRUE, input |-> <<"a">>]

\* The prompt shown is for a run_cmd whose command has a pattern.
PromptForCommand ==
    /\ pc = "confirm"
    /\ tool_calls[idx].name = "run_cmd"
    /\ CmdPattern_from_str(tool_calls[idx].command).ok

\* C30: when the save fails after the user's "a", the gate still answers
\* AutoApproved and the call goes on to execute in the same turn, the
\* pattern is in the approved set in memory though not in storage, and a
\* later command with that pattern is auto-approved from the record.
C30_FailedSaveOnlyReported ==
    /\ [](PromptForCommand =>
             ENABLED (/\ AnswerPrompt(AlwaysAnswer, FALSE)
                      /\ pc' = "execute"
                      /\ confirmation' = "AutoApproved"
                      /\ PatternOf(tool_calls[idx]) \in approvals'.approved_commands
                      /\ config' = approvals'.approved_commands
                      /\ disk' = disk
                      /\ UNCHANGED << tool_calls, idx, tool_results, chat_history,
                                      turn_end, requests >>))
    /\ [][(/\ pc = "batch"
           /\ idx \in 1..Len(tool_calls)
           /\ tool_calls[idx].name = "run_cmd"
           /\ tool_calls[idx].valid
           /\ ~skip_hitl
           /\ PatternOf(tool_calls[idx]) \in approvals.approved_commands \ disk)
             => /\ pc' = "execute"
                /\ confirmation' = "AutoApproved"
                /\ \E e \in executed' : e.id = tool_calls[idx].id /\ e.how = "record"]_vars

\* The save of "git status" failed, its call ran all the same, the model was
\* asked again in the same turn, and a second "git status" is being executed
\* on the strength of the pattern, which storage does not hold.
C30_UnsavedPatternAutoApproves ==
    /\ pc = "execute"
    /\ confirmation = "AutoApproved"
    /\ requests >= 2
    /\ GitStatusPattern \in approvals.approved_commands
    /\ GitStatusPattern \notin disk
    /\ \E e \in executed : e.id = tool_calls[idx].id /\ e.how = "record"
    /\ \E e \in executed : e.id < tool_calls[idx].id /\ e.how = "prompt"

(***************************************************************************)
(* Properties of the results of a batch.                                   *)
(***************************************************************************)
\* handle_prompt is in its for loop over the batch.
InBatch == pc \in {"batch", "confirm", "execute"}

\* The step takes handle_prompt out of the for loop.
LeavesBatch == InBatch /\ pc' \in {"request", "returned"}

\* results[k] carries the id and the call id of the k-th call, for k up to n.
AnswersCalls(results, calls, n) ==
    /\ Len(results) = n
    /\ \A k \in 1..n :
          /\ results[k].id = calls[k].id
          /\ results[k].call_id = calls[k].call_id

\* C31: on every way out of the batch loop (all calls processed, rejection,
\* feedback, interrupt) the results of a batch of n tool calls are n, and the
\* k-th result carries the id and the call id of the k-th call; inside the
\* loop the calls before the one in hand have theirs.
C31_OneResultPerCallInOrder ==
    /\ [](InBatch => AnswersCalls(tool_results, tool_calls, idx - 1))
    /\ [][LeavesBatch =>
             AnswersCalls(ResultsAfter, tool_calls, Len(tool_calls))]_vars

\* A batch of three calls was left by a rejection of the second: the first
\* has its own result, the second the rejection, the third a skip.
C31_ThreeResultsAfterRejection ==
    /\ pc = "returned"
    /\ turn_end = "rejected"
    /\ Len(Last(chat_history).results) = 3
    /\ Last(chat_history).results[1].text \notin SkipTexts \cup {UserRejected}
    /\ Last(chat_history).results[2].text = UserRejected
    /\ Last(chat_history).results[3].text = SkippedRejected
    /\ Last(chat_history).results[2].call_id # None

(***************************************************************************)
(* Properties of what a consumed stream leaves in the history.             *)
(***************************************************************************)
\* The step is the end of a stream that was consumed without error.
StreamConsumed ==
    /\ pc = "streaming"
    /\ stream = "open"
    /\ stream' = "none"
    /\ signals' = signals

\* The messages the step appends to the history, when it only appends.
Appended == SubSeq(chat_history', Len(chat_history) + 1, Len(chat_history'))

\* C32: a consumed stream appends to the history the pending prompt and then
\* at most one Assistant message; that message holds the accumulated text
\* first, if there is any, and then every tool call in arrival order;
\* reasoning is not in it; and with neither text nor tool call no Assistant
\* message is appended.
C32_StreamCommitsPromptThenAssistant ==
    [][StreamConsumed =>
          /\ Len(chat_history') >= Len(chat_history) + 1
          /\ SubSeq(chat_history', 1, Len(chat_history)) = chat_history
          /\ Appended[1] = prompt
          /\ Len(Appended) = IF response_text = <<>> /\ tool_calls = <<>> THEN 1 ELSE 2
          /\ Len(Appended) = 2 =>
                LET m == Appended[2]
                    n == Len(m.content)
                    t == IF response_text = <<>> THEN 0 ELSE 1
                IN  /\ m.role = "assistant"
                    /\ m.text = response_text
                    /\ \A k \in DOMAIN m.text : m.text[k] = "t"
                    /\ m.calls = tool_calls
                    /\ m.results = <<>>
                    /\ n = t + Len(tool_calls)
                    /\ t = 1 => m.content[1].kind = "text"
                    /\ \A k \in 1..Len(tool_calls) :
                          /\ m.content[t + k].kind = "tool_call"
                          /\ m.content[t + k].id = tool_calls[k].id]_vars

\* A stream that brought text and two tool calls was consumed: the history
\* ends with the prompt and one Assistant message, the text before the calls.
C32_TextAndTwoCallsCommitted ==
    /\ pc = "batch"
    /\ idx = 1
    /\ Len(chat_history) = 2
    /\ chat_history[1] = prompt
    /\ chat_history[2].role = "assistant"
    /\ chat_history[2].text # <<>>
    /\ Len(chat_history[2].calls) = 2
    /\ Len(chat_history[2].content) = 3

(***************************************************************************)
(* Properties of the order in which a batch is gated and executed.         *)
(***************************************************************************)
\* confirm_tool_call was called for call k of the batch.
Gated(k) == tool_calls[k].id \in gated

\* execute() was started for call k of the batch.
Executed(k) == \E e \in executed : e.id = tool_calls[k].id

\* C33: the calls of a batch are gated and executed one at a time in arrival
\* order: while a prompt is pending the call it is for has not been started
\* and every earlier call has its result, and no later call is gated or
\* started before the call in hand has its result.
C33_OneCallAtATimeInOrder ==
    /\ [](InBatch =>
             /\ idx \in 1..Len(tool_calls)
             /\ Len(tool_results) = idx - 1
             /\ \A k \in 1..Len(tool_calls) : (Gated(k) \/ Executed(k)) => k <= idx
             /\ pc = "batch" => ~Gated(idx) /\ ~Executed(idx)
             /\ pc = "confirm" => Gated(idx) /\ ~Executed(idx)
             /\ pc = "execute" => Executed(idx))
    /\ [](~InBatch => \A k \in 1..Len(tool_calls) : ~Gated(k) /\ ~Executed(k))
    /\ [][/\ gated' # gated =>
               /\ pc = "batch"
               /\ gated' = gated \cup {tool_calls[idx].id}
          /\ executed' # executed =>
               /\ pc \in {"batch", "confirm"}
               /\ pc' = "execute"
               /\ \E e \in executed' : /\ e.id = tool_calls[idx].id
                                       /\ executed' = executed \cup {e}]_vars

\* The prompt for the second of three calls is pending: the first has run and
\* has its result, the third has been neither gated nor started.
C33_PromptPendingForSecondOfThree ==
    /\ pc = "confirm"
    /\ idx = 2
    /\ Len(tool_calls) = 3
    /\ Executed(1)
    /\ Len(tool_results) = 1
    /\ ~Gated(3)
    /\ ~Executed(3)

(***************************************************************************)
(* Properties of the file-mutation flag.                                   *)
(***************************************************************************)

\* The step is the start of a new session of the program.
SessionStart == pc = "idle" /\ pc' = "idle" /\ executed # {} /\ executed' = {}

TurnEnds == {"completed", "stream_error", "interrupted", "tool_interrupted", "rejected"}

\* handle_prompt is running.
InTurn == pc \in {"request", "streaming", "batch", "confirm", "execute"}

\* C35: however a turn ends, handle_prompt returns to Session::run, which
\* goes on to its next prompt; on the way, and nowhere else, it sends one
\* turn_complete event, after every event of the turn.
C35_TurnEndsWithOneTurnComplete ==
    /\ [](pc = "returned" => turn_end \in TurnEnds /\ ENABLED TurnComplete)
    /\ [][/\ (InTurn /\ ~InTurn') => pc' = "returned"
          /\ pc = "returned" =>
                /\ pc' = "idle"
                /\ debug_tx => published' = "turn_complete"
                /\ UNCHANGED << chat_history, permissions, turn_end >>
          /\ (pc # "returned" /\ published' # published) => published' # "turn_complete"]_vars
    /\ (pc = "returned") ~> (pc = "idle" /\ (debug_tx => published = "turn_complete"))

\* A turn that was interrupted while a tool ran has returned and its
\* turn_complete event was sent after the events of the interruption.
C35_InterruptedTurnCompleted ==
    /\ pc = "idle"
    /\ turn_end = "tool_interrupted"
    /\ debug_tx
    /\ published = "turn_complete"
    /\ signals = 1

(***************************************************************************)
(* The cancellation channel under RunCmdTool::call.                        *)
(***************************************************************************)
\* CancelTx::cancel (v = TRUE) and CancelTx::reset (v = FALSE): send(v)
CancelTx_send(v) ==
    /\ ~watch.closed
    /\ watch.version < MaxWatchOps
    /\ cancelled' = v
    /\ watch' = [watch EXCEPT !.version = @ + 1]
    /\ UNCHANGED << pc, chat_history, prompt, response_text, tool_calls, tool_results,
                    idx, confirmation, published, next_id, chunks, issued, requests,
                    turn_end, executed, gated, signals, stream, spawned, bus,
                    written >>
    /\ UNCHANGED << permissions, environment, harness >>

\* The last CancelTx goes out of scope: the channel is closed.
CancelTx_drop ==
    /\ ~watch.closed
    /\ watch' = [watch EXCEPT !.closed = TRUE]
    /\ UNCHANGED << session, spawned, bus, written, permissions, environment, harness >>

\* RunCmdTool::call enters its select: the tool's receiver, which has seen
\* only the value the channel was created with, is cloned for the wait.
CallSelect ==
    /\ watch.waiter # "waiting"
    /\ watch' = [watch EXCEPT !.seen = 0, !.started = FALSE,
                              !.waiter = "waiting", !.result = "none"]
    /\ UNCHANGED << session, spawned, bus, written, permissions, environment, harness >>

\* The select polls wait_for_cancellation; when it completes, call returns
\* Err(RunCmdError::Interrupted).
CallWaitPolled ==
    /\ watch.waiter = "waiting"
    /\ LET w == CancelRx_wait_for_cancellation(watch, cancelled)
       IN  watch' = IF w.waiter = "returned"
                    THEN [w EXCEPT !.result = "Interrupted"]
                    ELSE w
    /\ UNCHANGED << session, spawned, bus, written, permissions, environment, harness >>

\* The select's other branch: call_inner completes first and the wait is dropped.
CallInnerCompletes ==
    /\ watch.waiter = "waiting"
    /\ watch' = [watch EXCEPT !.waiter = "none", !.result = "call_inner"]
    /\ UNCHANGED << session, spawned, bus, written, permissions, environment, harness >>

NextWatch ==
    \/ \E v \in BOOLEAN : CancelTx_send(v)
    \/ CancelTx_drop
    \/ CallSelect
    \/ CallWaitPolled
    \/ CallInnerCompletes

SpecWatch == InitCmd /\ [][NextWatch]_vars

\* C36: wait_for_cancellation completes, and RunCmdTool::call reports
\* Interrupted, only when the cancellation flag is true; while the flag is
\* false the wait stays pending, also after a reset and also after every
\* CancelTx has been dropped.
C36_WaitCompletesOnlyWhenCancelled ==
    [][(watch.waiter = "waiting" /\ watch'.waiter = "returned") => cancelled]_vars

\* The tool of tests::get_tool: the CancelTx was dropped without a send; the
\* wait of a call has completed although the flag is false, and the call has
\* reported Interrupted.
C36_InterruptedWithoutCancel ==
    /\ watch.closed
    /\ watch.version = 0
    /\ ~cancelled
    /\ watch.waiter = "returned"
    /\ watch.result = "Interrupted"

(***************************************************************************)
(* Interrupted file tools.                                                 *)
(***************************************************************************)
\* The tool calls the assistant messages of the history carry.
HistoryCalls ==
    UNION {{chat_history[k].calls[j] : j \in 1..Len(chat_history[k].calls)} :
              k \in 1..Len(chat_history)}

\* The history holds the result "tool call interrupted by user" for the call.
RecordedInterrupted(id) ==
    \E k \in 1..Len(chat_history) :
        \E j \in 1..Len(chat_history[k].results) :
            /\ chat_history[k].results[j].id = id
            /\ chat_history[k].results[j].text = InterruptedByUser

\* C37: a create_file or edit_file call recorded in the history with the
\* result "tool call interrupted by user" has not written its target file.
C37_InterruptedFileCallNotWritten ==
    \A tc \in HistoryCalls :
        (FileMutation(tc) /\ RecordedInterrupted(tc.id)) => tc.id \notin written

\* A create_file call was approved and started, its write took place, the
\* Ctrl-C branch won the select, and the history reports the call as
\* interrupted by the user.
C37_WrittenButRecordedInterrupted ==
    \E tc \in HistoryCalls :
        /\ tc.name = "create_file"
        /\ RecordedInterrupted(tc.id)
        /\ tc.id \in written
        /\ turn_end = "tool_interrupted"

(***************************************************************************)
(* A failed read at the confirmation prompt.                               *)
(***************************************************************************)
\* editor.readline returns Err: end of input or an interrupt at the prompt.
ReadFailure == [ok |-> FALSE, input |-> <<>>]

\* The step of the gate whose read of the answer fails.
ReadFails == \E save_ok \in BOOLEAN : AnswerPrompt(ReadFailure, save_ok)

\* The pending call gets the rejection, every later call of the batch the
\* skip, and these results close the history.
RejectedAndSkipped ==
    LET results == Last(chat_history').results
    IN  /\ Len(chat_history') = Len(chat_history) + 1
        /\ Len(results) = Len(tool_calls)
        /\ results[idx].id = tool_calls[idx].id
        /\ results[idx].text = UserRejected
        /\ \A k \in (idx + 1)..Len(tool_calls) :
              /\ results[k].id = tool_calls[k].id
              /\ results[k].text = SkippedRejected

\* C38: when the read of the user's answer at a confirmation prompt fails,
\* the gate returns Rejected: the pending call is not executed, the rest of
\* the batch is skipped, the turn ends and the permission record is unchanged.
C38_FailedReadRejects ==
    /\ [](pc = "confirm" => ENABLED ReadFails)
    /\ [][ReadFails =>
            /\ confirmation' = "Rejected"
            /\ executed' = executed
            /\ spawned' = spawned
            /\ written' = written
            /\ RejectedAndSkipped
            /\ pc' = "returned"
            /\ turn_end' = "rejected"
            /\ approvals' = approvals
            /\ config' = config
            /\ disk' = disk]_vars

\* The read failed at the prompt for the first of two calls: the turn ended
\* rejected, the first call has the rejection and the second the skip, and
\* nothing was executed, spawned or written.
C38_FirstOfTwoRejectedOnFailure ==
    /\ pc = "returned"
    /\ turn_end = "rejected"
    /\ confirmation = "Rejected"
    /\ Len(Last(chat_history).results) = 2
    /\ Last(chat_history).results[1].text = UserRejected
    /\ Last(chat_history).results[2].text = SkippedRejected
    /\ executed = {}
    /\ spawned = {}
    /\ written = {}
    /\ approvals = [fs_changes |-> FALSE, approved_commands |-> {}]

(***************************************************************************)
(* What the auto-approval of a command line depends on.                    *)
(***************************************************************************)
\* The first two tokens shlex::split gives for the line; an empty sequence
\* for a line that cannot be lexed or has no token.
FirstTwoTokens(c) ==
    LET r == shlex_split(c)
    IN  IF ~r.ok THEN <<>>
        ELSE IF Len(r.words) <= 2 THEN r.words
        ELSE SubSeq(r.words, 1, 2)

\* More tokens after a command line.
MoreArgs == <<" ", "-", "s", " ", "'", "x", " ", "y", "'">>

\* Short lines of quotes, escapes and blanks around one letter.
ShortCmds == SeqsUpTo(CmdAlphabet, 2)

\* The command lines approved and checked against each other: the examples
\* and the short lines, each also followed by more arguments.
ComparedCmds ==
    LET lines == ExampleCmds \cup ShortCmds
    IN  lines \cup {c \o MoreArgs : c \in lines}

\* The matcher harness over the compared lines.
NextArgs ==
    \/ \E c \in ComparedCmds : CmdInsert(c)
    \/ \E c \in ComparedCmds : CmdCheck(c)
    \/ CmdDone

SpecArgs == InitCmd /\ [][NextArgs]_vars

\* The gate's lookup for a run_cmd call with the command line c.
AutoApproved(c) ==
    Approvals_is_tool_call_approved(approvals, ToolCall(1, Shape("run_cmd", TRUE, c, TRUE)))

\* C39: whether a run_cmd is auto-approved depends only on the first two
\* shell-lexed tokens of its command line: with the same permission record,
\* every command line that agrees with the one checked on these tokens gets
\* the same answer, whatever follows them; a line that cannot be lexed or has
\* no token is never auto-approved.
C39_DecisionDependsOnFirstTwoTokens ==
    cmd_out # "none" =>
        /\ AutoApproved(cmd) <=> cmd_out = "approved"
        /\ \A c \in ComparedCmds :
              FirstTwoTokens(c) = FirstTwoTokens(cmd)
                  => (AutoApproved(c) <=> cmd_out = "approved")
        /\ \A c \in ComparedCmds : FirstTwoTokens(c) = <<>> => ~AutoApproved(c)

\* "git status" is in the record and was checked and approved; the line
\* git status -s 'x y' has the same first two tokens and more after them.
C39_SameTokensOtherText ==
    /\ cmd = GitStatus
    /\ cmd_out = "approved"
    /\ GitStatus \o MoreArgs \in ComparedCmds
    /\ GitStatus \o MoreArgs # cmd
    /\ FirstTwoTokens(GitStatus \o MoreArgs) = <<Git, <<"s", "t", "a", "t", "u", "s">> >>
    /\ \E c \in ComparedCmds : FirstTwoTokens(c) = <<>> /\ c # <<>>

(***************************************************************************)
(* The history over a turn and over the new-session command.               *)
(***************************************************************************)
\* Every message of the history is still there, in its place and unaltered.
HistoryKept ==
    /\ Len(chat_history') >= Len(chat_history)
    /\ SubSeq(chat_history', 1, Len(chat_history)) = chat_history

\* C40: during a turn the history only grows: no step of handle_prompt
\* removes, reorders or rewrites a message already in it, so the history
\* before a turn is a prefix of the history after it. In a running session
\* only the new-session command empties the history, and it leaves the
\* permission record unchanged.
C40_HistoryOnlyGrowsInTurn ==
    /\ [][(InTurn \/ InTurn' \/ pc = "returned") => HistoryKept]_vars
    /\ [][~HistoryKept => (NewSession \/ SessionStart)]_vars
    /\ [][NewSession =>
            /\ chat_history' = <<>>
            /\ approvals' = approvals
            /\ config' = config
            /\ disk' = disk]_vars

\* After a turn in which file changes were approved for the session, the
\* new-session command has emptied the history and the approval stands.
C40_NewSessionKeepsApproval ==
    /\ pc = "idle"
    /\ chat_history = <<>>
    /\ published = "new_session"
    /\ issued > 0
    /\ approvals.fs_changes

====
